---- MODULE Spec2Model ----
(***************************************************************************)
(* Conversation session state machine of the diagnostic bot                *)
(* (src/bot/handlers.py, src/bot/utils.py, src/bot/keyboards.py).          *)
(*                                                                         *)
(* One chat / one user.  An inbound update (start command, button press,   *)
(* text message) is dispatched by the ConversationHandler table of         *)
(* build_application to one handler, which runs to completion; in the      *)
(* specification Spec every transport and collaborator call succeeds.      *)
(* FailSpec adds calls that fail, ConcSpec report requests that overlap    *)
(* other updates of the session, FollowSpec the follow-up tasks, PairSpec  *)
(* a second conversation.  ToggleSpec, RecorderSpec, SessionSpec,          *)
(* FormatSpec and ChatSpec apply single functions to drawn sessions.       *)
(* WebhookSpec is the webhook entry point (src/api/webhook.py).            *)
(***************************************************************************)
EXTENDS Integers, Sequences, FiniteSets, TLC

VARIABLES
    state,      \* conversation super-state kept by the ConversationHandler
    user_data,  \* context.user_data: the session
    cards,      \* question cards in the chat: card -> question whose keyboard it shows
    event,      \* history: the last update and the handler branch that served it
    out,        \* history: transport / collaborator calls made while serving it
    tg,         \* scratch of the harnesses that apply one function to drawn inputs
    hist,       \* history: counters of collaborator invocations
    tasks,      \* follow-up tasks created by handle_report_request
    inflight    \* report requests whose handler is suspended at an await (ConcSpec)

vars == <<state, user_data, cards, event, out, tg, hist, tasks, inflight>>

-----------------------------------------------------------------------------
(* Bounds *)

\* most custom free-text entries recorded for one multi-select question
MaxCustom == 2

\* the counter of persistence invocations stops at PersistsCap
PersistsCap == 2

\* follow-up tasks created in one behaviour when the tasks are tracked
MaxFollowUps == 2

\* report requests suspended at an await at the same time (ConcSpec)
MaxInFlight == 2

\* updates served while a report request is suspended (ConcSpec)
MaxOverlap == 5

\* updates whose handling raises in one behaviour (FailSpec)
MaxFaults == 1

\* calls of reset_user_session / ensure_user_data made on one drawn session (SessionSpec)
MaxCalls == 4

\* start commands sent in one conversation (PairSpec)
MaxStarts == 1

\* calls of the projections made on one drawn session (FormatSpec)
MaxRepeats == 2

\* text messages handed to handle_chat_message (ChatSpec)
MaxChatMessages == 7

-----------------------------------------------------------------------------
(* Absent values (Python None / missing dictionary key) *)

NoId == "none"

NoOption == [key |-> NoId, text |-> NoId, requires_free_text |-> FALSE]

NoQuestion ==
    [id |-> NoId, section |-> NoId, multi_select |-> FALSE,
     expects_text |-> FALSE, options |-> <<>>]

NoAnswer == [tag |-> "none"]

NoOther ==
    [question_id |-> NoId, option_text |-> NoId, section |-> NoId,
     multi_select |-> FALSE]

-----------------------------------------------------------------------------
(* Question catalog (bot/questions.py) *)

Questions ==
    << [id |-> "q1", section |-> "business", multi_select |-> FALSE,
        expects_text |-> FALSE,
        options |-> << [key |-> "a", text |-> "A text", requires_free_text |-> FALSE],
                       [key |-> "other", text |-> "Other one", requires_free_text |-> TRUE] >>],
       [id |-> "q2", section |-> "readiness", multi_select |-> TRUE,
        expects_text |-> FALSE,
        options |-> << [key |-> "x", text |-> "X text", requires_free_text |-> FALSE],
                       [key |-> "y", text |-> "Y text", requires_free_text |-> FALSE],
                       [key |-> "other", text |-> "Other two", requires_free_text |-> TRUE] >>],
       [id |-> "q3", section |-> "readiness", multi_select |-> FALSE,
        expects_text |-> TRUE, options |-> <<>>] >>

get_all_question_sequence == Questions

QIds == {Questions[i].id : i \in 1..Len(Questions)}

\* callback data of the skill-level keyboard (messages.SKILL_LEVEL_OPTIONS)
SkillLevelData == {"skill_level_beginner", "skill_level_expert"}

\* stripped texts of the plain-text messages a user sends ("": only whitespace)
UserTexts == {"hello", ""}

-----------------------------------------------------------------------------
(* Conversation states (bot/states.py); NONE: no conversation yet *)

ConversationState ==
    {"WELCOME", "SKILL_LEVEL", "VIDEO", "DIAGNOSIS", "READINESS", "REPORT", "CHAT"}

NoConversation == "NONE"

-----------------------------------------------------------------------------
(* Session store (bot/utils.py) *)

\* an empty user_data dictionary: every key missing
EmptyUserData ==
    [initialized |-> FALSE,
     answers |-> [q \in QIds |-> NoAnswer],
     question_index |-> 0,
     awaiting_text_question |-> NoId,
     awaiting_other_question |-> NoOther,
     skill_level |-> NoId,
     report_ready |-> FALSE,
     diagnosis_complete |-> FALSE,
     current_question_message |-> NoId,
     sheets_saved |-> FALSE,
     chat_history |-> <<>>,
     analysis |-> FALSE]

\* a reset that sets the defaults without user_data.clear()
reset_without_clear(ud) ==
    [ud EXCEPT !.initialized = TRUE,
               !.answers = [q \in QIds |-> NoAnswer],
               !.question_index = 0,
               !.report_ready = FALSE,
               !.diagnosis_complete = FALSE,
               !.current_question_message = NoId,
               !.sheets_saved = FALSE,
               !.chat_history = <<>>]

reset_user_session(ud) ==
    [EmptyUserData EXCEPT !.initialized = TRUE,
                          !.answers = [q \in QIds |-> NoAnswer],
                          !.question_index = 0,
                          !.report_ready = FALSE,
                          !.diagnosis_complete = FALSE,
                          !.current_question_message = NoId,
                          !.sheets_saved = FALSE,
                          !.chat_history = <<>>]

\* an ensure that resets whatever it is given
ensure_always_resets(ud) == reset_user_session(ud)

ensure_user_data(ud) ==
    IF ~ud.initialized THEN reset_user_session(ud) ELSE ud

\* Python list index i is TLA+ sequence index i + 1
get_current_question(ud) ==
    LET index == ud.question_index
    IN  IF 0 <= index /\ index < Len(get_all_question_sequence)
        THEN get_all_question_sequence[index + 1]
        ELSE NoQuestion

\* the pair (user_data after the increment, question returned)
advance_wrapping(ud) ==
    LET index == (ud.question_index + 1) % Len(get_all_question_sequence)
    IN  [ud |-> [ud EXCEPT !.question_index = index],
         question |-> get_all_question_sequence[index + 1]]

advance_question(ud) ==
    LET index == ud.question_index + 1
    IN  [ud |-> [ud EXCEPT !.question_index = index],
         question |-> IF 0 <= index /\ index < Len(get_all_question_sequence)
                      THEN get_all_question_sequence[index + 1]
                      ELSE NoQuestion]

get_question_by_id(question_id) ==
    IF question_id \in QIds
    THEN CHOOSE q \in {Questions[i] : i \in 1..Len(Questions)} : q.id = question_id
    ELSE NoQuestion

find_option_by_key(question, key) ==
    LET hits == {i \in 1..Len(question.options) : question.options[i].key = key}
    IN  IF hits = {} THEN NoOption
        ELSE question.options[CHOOSE i \in hits : \A j \in hits : i <= j]

-----------------------------------------------------------------------------
(* Answer recorder (bot/utils.py) *)

Scalar(value) == [tag |-> "scalar", value |-> value]

Choice(selected, custom) == [tag |-> "choice", selected |-> selected, custom |-> custom]

\* list.remove(x): drops the first occurrence of x
RECURSIVE ListRemove(_, _)
ListRemove(list, x) ==
    IF list = <<>> THEN <<>>
    ELSE IF Head(list) = x THEN Tail(list)
    ELSE <<Head(list)>> \o ListRemove(Tail(list), x)

ListHas(list, x) == \E i \in 1..Len(list) : list[i] = x

\* answers.setdefault(question_id, {"selected": [], "custom": []})
SetDefaultEntry(ud, question_id) ==
    IF ud.answers[question_id] = NoAnswer
    THEN Choice(<<>>, <<>>)
    ELSE ud.answers[question_id]

\* entry.setdefault raises AttributeError on a str entry
RaisesOnEntry(ud, question_id) == ud.answers[question_id].tag = "scalar"

record_single_answer(ud, question_id, value) ==
    [ud EXCEPT !.answers[question_id] = Scalar(value)]

\* a toggle that only ever selects
toggle_append_only(ud, question, option) ==
    LET entry == SetDefaultEntry(ud, question.id)
    IN  [ud EXCEPT !.answers[question.id] =
            Choice(Append(entry.selected, option.key), entry.custom)]

\* defined where the entry is a dictionary (not RaisesOnEntry)
toggle_multi_option(ud, question, option) ==
    LET entry == SetDefaultEntry(ud, question.id)
        selected == IF ListHas(entry.selected, option.key)
                    THEN ListRemove(entry.selected, option.key)
                    ELSE Append(entry.selected, option.key)
    IN  [ud EXCEPT !.answers[question.id] = Choice(selected, entry.custom)]

get_selected_option_keys(ud, question_id) ==
    IF ud.answers[question_id].tag = "choice"
    THEN ud.answers[question_id].selected
    ELSE <<>>

\* an append that stores the custom value as the question's Scalar
append_custom_as_scalar(ud, question_id, option_text, value) ==
    record_single_answer(ud, question_id, value)

\* an append that skips an entry the custom list already holds
append_custom_unless_present(ud, question_id, option_text, value) ==
    LET entry == SetDefaultEntry(ud, question_id)
        item == [option |-> option_text, value |-> value]
    IN  [ud EXCEPT !.answers[question_id] =
            Choice(entry.selected,
                   IF ListHas(entry.custom, item) THEN entry.custom
                   ELSE Append(entry.custom, item))]

\* defined where the entry is a dictionary (not RaisesOnEntry)
append_custom_answer(ud, question_id, option_text, value) ==
    LET entry == SetDefaultEntry(ud, question_id)
    IN  [ud EXCEPT !.answers[question_id] =
            Choice(entry.selected,
                   Append(entry.custom, [option |-> option_text, value |-> value]))]

set_current_question_message(ud, card) ==
    [ud EXCEPT !.current_question_message = card]

get_current_question_message(ud) == ud.current_question_message

\* an append that drops the newest entries once the limit is reached
append_chat_keeping_oldest(ud, role, message, limit) ==
    LET history == Append(ud.chat_history, [role |-> role, message |-> message])
    IN  [ud EXCEPT !.chat_history =
            IF Len(history) > limit THEN SubSeq(history, 1, limit) ELSE history]

\* keeps the last `limit` entries, oldest evicted first
append_chat_history(ud, role, message, limit) ==
    LET history == Append(ud.chat_history, [role |-> role, message |-> message])
        n == Len(history)
    IN  [ud EXCEPT !.chat_history =
            IF n > limit THEN SubSeq(history, n - limit + 1, n) ELSE history]

ChatHistoryLimit == 12

-----------------------------------------------------------------------------
(* Transport and collaborator calls, as recorded in out *)

Call(op, q, card) == [op |-> op, q |-> q, card |-> card]

\* what a handler leaves behind: session, returned state, cards, calls, branch taken
Result(ud, st, cds, calls, branch, q) ==
    [ud |-> ud, st |-> st, cards |-> cds, out |-> calls, branch |-> branch, q |-> q]

\* buttons of keyboards.question_options_keyboard: one per option, "done" if multi-select
KeyboardPayloads(question) ==
    {question.options[i].key : i \in 1..Len(question.options)}
        \cup (IF question.multi_select THEN {"done"} ELSE {})

-----------------------------------------------------------------------------
(* Flow controller (bot/handlers.py) *)

state_for_question_fixed(question) == "DIAGNOSIS"

_state_for_question(question) ==
    IF question.section = "business" THEN "DIAGNOSIS" ELSE "READINESS"

complete_without_flag(ud, cds, calls, branch, q) ==
    Result(ud, "REPORT", cds, Append(calls, Call("send_pre_report", NoId, NoId)), branch, q)

handle_questionnaire_complete(ud, cds, calls, branch, q) ==
    Result([ud EXCEPT !.diagnosis_complete = TRUE], "REPORT", cds,
           Append(calls, Call("send_pre_report", NoId, NoId)), branch, q)

\* a send that keeps the awaiting markers of the previous question
send_question_keeping_markers(ud, cds, question, calls, branch, q) ==
    LET ud1 == IF question.options = <<>> /\ question.expects_text
               THEN [ud EXCEPT !.awaiting_text_question = question.id]
               ELSE ud
    IN  Result(set_current_question_message(ud1, question.id),
               _state_for_question(question),
               [cds EXCEPT ![question.id] = question.id],
               Append(calls, Call("send_card", question.id, question.id)),
               branch, q)

\* the new card is tracked under the id of the question it is sent for
_send_question(ud, cds, question, calls, branch, q) ==
    LET ud0 == [ensure_user_data(ud) EXCEPT !.awaiting_text_question = NoId,
                                            !.awaiting_other_question = NoOther]
        ud1 == IF question.options = <<>> /\ question.expects_text
               THEN [ud0 EXCEPT !.awaiting_text_question = question.id]
               ELSE ud0
    IN  Result(set_current_question_message(ud1, question.id),
               _state_for_question(question),
               [cds EXCEPT ![question.id] = question.id],
               Append(calls, Call("send_card", question.id, question.id)),
               branch, q)

send_next_question(ud, cds, is_new, calls, branch, q) ==
    LET ud0 == ensure_user_data(ud)
        adv == IF is_new
               THEN [ud |-> ud0, question |-> get_current_question(ud0)]
               ELSE advance_question(ud0)
    IN  IF adv.question = NoQuestion
        THEN handle_questionnaire_complete(adv.ud, cds, calls, branch, q)
        ELSE _send_question(adv.ud, cds, adv.question, calls, branch, q)

start_command(ud, cds) ==
    Result(reset_user_session(ensure_user_data(ud)), "WELCOME", cds,
           <<Call("send_welcome", NoId, NoId)>>, "start", NoId)

handle_start_button(ud, cds) ==
    Result(ensure_user_data(ud), "SKILL_LEVEL", cds,
           <<Call("send_skill_prompt", NoId, NoId)>>, "start_button", NoId)

\* a skill selection that takes the expert straight to the questionnaire
skill_selection_skipping_video(ud, cds, choice) ==
    Result([ud EXCEPT !.skill_level = choice],
           IF choice = "skill_level_expert" THEN "DIAGNOSIS" ELSE "VIDEO", cds,
           <<Call("send_video_or_skip", NoId, NoId)>>, "skill", NoId)

\* both kinds of choice (video shown or skipped) return VIDEO
handle_skill_selection(ud, cds, choice) ==
    Result([ud EXCEPT !.skill_level = choice], "VIDEO", cds,
           <<Call("send_video_or_skip", NoId, NoId)>>, "skill", NoId)

start_diagnosis_flow(ud, cds) ==
    send_next_question(ud, cds, TRUE, <<Call("send_intro", NoId, NoId)>>, "video", NoId)

handle_video_confirmation(ud, cds) == start_diagnosis_flow(ud, cds)

\* edits the card named by current_question_message to show `question`
_refresh_question_message(ud, cds, question, calls, branch, st) ==
    LET ref == get_current_question_message(ud)
    IN  IF ref = NoId
        THEN Result(ud, st, cds, calls, branch, question.id)
        ELSE Result(set_current_question_message(ud, ref), st,
                    [cds EXCEPT ![ref] = question.id],
                    Append(calls, Call("edit_card", question.id, ref)),
                    branch, question.id)

_handle_multi_done(ud, cds, question) ==
    send_next_question(ud, cds, FALSE, <<>>, "multi_done", question.id)

\* a routing miss that answers with the state the conversation is in
miss_keeps_state(ud, st, cds, branch, question) == Result(ud, st, cds, <<>>, branch, question.id)

\* data: query.data split at "|"; card: the message the pressed button is on
handle_question_callback(ud, st, cds, data, card) ==
    IF Len(data) # 3
    THEN Result(ud, "DIAGNOSIS", cds, <<>>, "miss_malformed", NoId)
    ELSE
    LET question == get_question_by_id(data[2])
        payload == data[3]
        option == find_option_by_key(question, payload)
    IN  IF question = NoQuestion
        THEN Result(ud, "DIAGNOSIS", cds, <<>>, "miss_question", NoId)
        ELSE IF payload = "done"
        THEN _handle_multi_done(ud, cds, question)
        ELSE IF option = NoOption
        THEN Result(ud, _state_for_question(question), cds, <<>>, "miss_option", question.id)
        ELSE IF option.requires_free_text
        THEN Result([ud EXCEPT !.awaiting_other_question =
                        [question_id |-> question.id, option_text |-> option.text,
                         section |-> question.section,
                         multi_select |-> question.multi_select]],
                    _state_for_question(question), cds,
                    <<Call("send_custom_prompt", question.id, NoId)>>,
                    "other_prompt", question.id)
        ELSE IF question.multi_select
        THEN IF RaisesOnEntry(ensure_user_data(ud), question.id)
             THEN Result(ensure_user_data(ud), st, cds, <<>>, "raised", question.id)
             ELSE Result(set_current_question_message(
                             toggle_multi_option(ensure_user_data(ud), question, option),
                             card),
                         _state_for_question(question),
                         [cds EXCEPT ![card] = question.id],
                         <<Call("edit_card", question.id, card)>>,
                         "toggle", question.id)
        ELSE send_next_question(record_single_answer(ud, question.id, option.text),
                                cds, FALSE, <<>>, "single_answer", question.id)

handle_chat_message(ud, st, cds, text) ==
    LET ud0 == ensure_user_data(ud)
    IN  IF ~ud0.report_ready
        THEN Result(ud0, "REPORT", cds, <<Call("send_reminder", NoId, NoId)>>,
                    "chat_not_ready", NoId)
        ELSE IF text = ""
        THEN Result(ud0, "CHAT", cds, <<Call("send_fallback", NoId, NoId)>>,
                    "chat_empty", NoId)
        ELSE \* the reply collaborator answers with a non-empty text
             Result(append_chat_history(
                        append_chat_history(ud0, "user", text, ChatHistoryLimit),
                        "assistant", "reply", ChatHistoryLimit),
                    "CHAT", cds,
                    <<Call("chat_reply", NoId, NoId), Call("send_reply", NoId, NoId)>>,
                    "chat", NoId)

_advance_after_text(ud, cds, question, branch) ==
    send_next_question(ud, cds, FALSE, <<>>, branch, question.id)

handle_text_response(ud, st, cds, text) ==
    LET ud0 == ensure_user_data(ud)
        other_ctx == ud0.awaiting_other_question
        awaiting_text_question == ud0.awaiting_text_question
    IN  IF other_ctx # NoOther
        THEN LET question == get_question_by_id(other_ctx.question_id)
             IN  IF question = NoQuestion
                 THEN Result([ud0 EXCEPT !.awaiting_other_question = NoOther],
                             "DIAGNOSIS", cds, <<Call("send_reminder", NoId, NoId)>>,
                             "other_unknown", NoId)
                 ELSE IF question.multi_select
                 THEN IF RaisesOnEntry(ud0, question.id)
                      THEN Result(ud0, st, cds, <<>>, "raised", question.id)
                      ELSE _refresh_question_message(
                               [append_custom_answer(ud0, question.id,
                                                     other_ctx.option_text, text)
                                   EXCEPT !.awaiting_other_question = NoOther],
                               cds, question, <<>>, "custom_multi",
                               _state_for_question(question))
                 ELSE _advance_after_text(
                          [record_single_answer(ud0, question.id, text)
                              EXCEPT !.awaiting_other_question = NoOther],
                          cds, question, "custom_single")
        ELSE IF awaiting_text_question # NoId
                /\ get_question_by_id(awaiting_text_question) # NoQuestion
        THEN LET question == get_question_by_id(awaiting_text_question)
             IN  _advance_after_text(
                     [record_single_answer(ud0, question.id, text)
                         EXCEPT !.awaiting_text_question = NoId],
                     cds, question, "text_answer")
        ELSE IF ud0.report_ready
        THEN handle_chat_message(ud0, st, cds, text)
        ELSE Result(ud0, "DIAGNOSIS", cds, <<Call("send_reminder", NoId, NoId)>>,
                    "text_reminder", NoId)

\* a report request that creates no follow-up task
report_request_without_follow_up(ud, cds) ==
    Result([ensure_user_data(ud) EXCEPT !.sheets_saved = TRUE,
                                        !.report_ready = TRUE,
                                        !.analysis = TRUE],
           "REPORT", cds, <<Call("send_document", NoId, NoId)>>, "report", NoId)

\* a report request that withdraws report_ready when it finds it set
report_request_toggling(ud, cds) ==
    Result([ensure_user_data(ud) EXCEPT !.sheets_saved = TRUE,
                                        !.report_ready = ~ud.report_ready],
           "REPORT", cds, <<Call("send_document", NoId, NoId)>>, "report", NoId)

\* persistence, analysis, rendering and delivery all succeed
handle_report_request(ud, cds) ==
    LET ud0 == ensure_user_data(ud)
    IN  IF ~ud0.diagnosis_complete
        THEN Result(ud0, "REPORT", cds, <<Call("send_reminder", NoId, NoId)>>,
                    "report_not_complete", NoId)
        ELSE LET persist == IF ud0.sheets_saved THEN <<>>
                            ELSE <<Call("persist", NoId, NoId)>>
             IN  Result([ud0 EXCEPT !.sheets_saved = TRUE,
                                    !.report_ready = TRUE,
                                    !.analysis = TRUE],
                        "REPORT", cds,
                        persist \o <<Call("analyze", NoId, NoId),
                                     Call("render_report", NoId, NoId),
                                     Call("send_document", NoId, NoId),
                                     Call("release_document", NoId, NoId),
                                     Call("schedule_follow_up", NoId, NoId)>>,
                        "report", NoId)

-----------------------------------------------------------------------------
(* Inbound updates *)

\* from: the state the update arrived in; text: the stripped text of a text message
NoEvent == [kind |-> "none", branch |-> "none", q |-> NoId, from |-> "NONE", text |-> NoId]

TgIdle == [step |-> 0, entry |-> NoAnswer, key |-> NoId, once |-> NoAnswer, twice |-> NoAnswer]

\* the calls that invoke sheets_service.store_answers, by outcome
PersistOps == {"persist", "persist_not_stored", "persist_raised"}

\* the calls that raised
RaisedOps ==
    {"persist_raised", "render_raised", "send_document_raised", "send_card_raised",
     "send_pre_report_raised", "send_custom_prompt_raised", "edit_card_raised"}

\* persists: invocations of the persistence collaborator since the last reset;
\* overlapped: updates served while a report request was suspended at an await;
\* faults: updates whose handling ended with an exception
NoHist == [persists |-> 0, overlapped |-> 0, faults |-> 0]

CountOps(calls, ops) == Cardinality({i \in 1..Len(calls) : calls[i].op \in ops})

Min(a, b) == IF a < b THEN a ELSE b

Counted(h, calls, kind) ==
    [persists |-> Min(PersistsCap,
                      (IF kind = "start" THEN 0 ELSE h.persists)
                          + CountOps(calls, PersistOps)),
     overlapped |-> IF inflight # <<>> /\ kind # "resume"
                    THEN h.overlapped + 1
                    ELSE h.overlapped,
     faults |-> IF CountOps(calls, RaisedOps) > 0 THEN h.faults + 1 ELSE h.faults]

\* follow-up tasks created with application.create_task; tracked: whether the
\* tasks are followed after their creation
Untracked == [tracked |-> FALSE, scheduled |-> 0, sent |-> 0]

Tracked == [tracked |-> TRUE, scheduled |-> 0, sent |-> 0]

Scheduled(t, calls) ==
    IF t.tracked
    THEN [t EXCEPT !.scheduled = @ + CountOps(calls, {"schedule_follow_up"})]
    ELSE t

\* callback data matching ^q\| that no keyboard of the current catalog carries
ForeignData ==
    { <<"q", "q1">>,            \* "q|q1": two parts
      <<"q", "q0", "a">>,       \* unknown question id
      <<"q", "q1", "z">>,       \* unknown option key, business question
      <<"q", "q2", "z">> }      \* unknown option key, readiness question

\* the buttons a user can press: those of the question cards in the chat, and the
\* buttons of messages of an earlier catalog (card NoId)
PressesOf(cds) ==
    UNION { { [card |-> c, data |-> <<"q", cds[c], pl>>]
              : pl \in KeyboardPayloads(get_question_by_id(cds[c])) }
            : c \in {d \in QIds : cds[d] # NoId} }
    \cup { [card |-> NoId, data |-> d] : d \in ForeignData }

Apply(r, kind, text) ==
    /\ state' = r.st
    /\ user_data' = r.ud
    /\ cards' = r.cards
    /\ out' = r.out
    /\ event' = [kind |-> kind, branch |-> r.branch, q |-> r.q, from |-> state,
                 text |-> text]
    /\ hist' = Counted(hist, r.out, kind)
    /\ tasks' = Scheduled(tasks, r.out)
    /\ UNCHANGED <<tg, inflight>>

WithinBounds(ud) ==
    \A q \in QIds :
        ud.answers[q].tag = "choice" => Len(ud.answers[q].custom) <= MaxCustom

Init ==
    /\ state = NoConversation
    /\ user_data = EmptyUserData
    /\ cards = [c \in QIds |-> NoId]
    /\ event = NoEvent
    /\ out = <<>>
    /\ tg = TgIdle
    /\ hist = NoHist
    /\ tasks = Untracked
    /\ inflight = <<>>

\* entry point and fallback of every state (allow_reentry)
StartCommand ==
    /\ state \in ConversationState \cup {NoConversation}
    /\ Apply(start_command(user_data, cards), "start", NoId)

StartButton ==
    /\ state = "WELCOME"
    /\ Apply(handle_start_button(user_data, cards), "button", NoId)

SkillSelection ==
    /\ state = "SKILL_LEVEL"
    /\ \E choice \in SkillLevelData :
           Apply(handle_skill_selection(user_data, cards, choice), "button", NoId)

VideoConfirmation ==
    /\ state = "VIDEO"
    /\ Apply(handle_video_confirmation(user_data, cards), "button", NoId)

QuestionCallback ==
    /\ state \in {"DIAGNOSIS", "READINESS"}
    /\ \E p \in PressesOf(cards) :
           Apply(handle_question_callback(user_data, state, cards, p.data, p.card),
                 "button", NoId)

ReportRequest ==
    /\ state = "REPORT"
    /\ tasks.tracked => tasks.scheduled < MaxFollowUps
    /\ Apply(handle_report_request(user_data, cards), "button", NoId)

\* a plain-text message: MessageHandler of DIAGNOSIS / READINESS and of CHAT;
\* no other state has a handler for it and the update is dropped
TextMessage ==
    \E text \in UserTexts :
        LET r == CASE state \in {"DIAGNOSIS", "READINESS"} ->
                          handle_text_response(user_data, state, cards, text)
                   [] state = "CHAT" ->
                          handle_chat_message(user_data, state, cards, text)
                   [] OTHER ->
                          Result(user_data, state, cards, <<>>, "dropped", NoId)
        IN  /\ WithinBounds(r.ud)
            /\ Apply(r, "text", text)

\* a press on a question card while the state has no handler for ^q\| data
DroppedCallback ==
    /\ state \notin {"DIAGNOSIS", "READINESS"}
    /\ \E c \in QIds : cards[c] # NoId
    /\ Apply(Result(user_data, state, cards, <<>>, "dropped", NoId), "button", NoId)

Next ==
    \/ StartCommand
    \/ StartButton
    \/ SkillSelection
    \/ VideoConfirmation
    \/ QuestionCallback
    \/ ReportRequest
    \/ TextMessage
    \/ DroppedCallback

Spec == Init /\ [][Next]_vars

-----------------------------------------------------------------------------
(* Calls that fail (FailSpec): an exception leaves the handler at the call *)
(* that raised; the ConversationHandler keeps the state the conversation   *)
(* was in, and what the handler wrote to context.user_data before the call *)
(* stays written.  The user of FailSpec presses the buttons of the card of *)
(* the current question only.                                              *)

\* persist_raises: store_answers raises (an error other than the URLError and
\* HttpError it catches); persist_stores_nothing: store_answers returns without
\* having stored the answers; analysis_fails: analyze_answers returns the
\* default analysis; render_raises, send_raises: generate_report resp.
\* send_document raises
ReportFaults ==
    {"persist_raises", "persist_stores_nothing", "analysis_fails", "render_raises",
     "send_raises"}

\* a report request that gives up when the analysis returns the default
report_request_analysis_fatal(ud, st, cds, fault) ==
    IF fault = "analysis_fails"
    THEN Result([ensure_user_data(ud) EXCEPT !.sheets_saved = TRUE], st, cds,
                <<Call("analyze_default", NoId, NoId)>>, "report_raised", NoId)
    ELSE handle_report_request(ud, cds)

\* a report request that keeps the document when send_document raised
report_request_keeping_unsent_document(ud, st, cds, fault) ==
    IF fault = "send_raises"
    THEN Result([ensure_user_data(ud) EXCEPT !.sheets_saved = TRUE], st, cds,
                <<Call("analyze", NoId, NoId),
                  Call("render_report", NoId, NoId),
                  Call("send_document_raised", NoId, NoId)>>,
                "report_raised", NoId)
    ELSE handle_report_request(ud, cds)

handle_report_request_faulty(ud, st, cds, fault) ==
    LET ud0 == ensure_user_data(ud)
        persist == IF ud0.sheets_saved THEN <<>>
                   ELSE IF fault = "persist_stores_nothing"
                   THEN <<Call("persist_not_stored", NoId, NoId)>>
                   ELSE <<Call("persist", NoId, NoId)>>
        saved == [ud0 EXCEPT !.sheets_saved = TRUE]
        analyze == IF fault = "analysis_fails"
                   THEN <<Call("analyze_default", NoId, NoId)>>
                   ELSE <<Call("analyze", NoId, NoId)>>
    IN  CASE fault = "persist_raises" ->
                 Result(ud0, st, cds, <<Call("persist_raised", NoId, NoId)>>,
                        "report_raised", NoId)
          [] fault = "render_raises" ->
                 Result(saved, st, cds,
                        persist \o analyze \o <<Call("render_raised", NoId, NoId)>>,
                        "report_raised", NoId)
          [] fault = "send_raises" ->
                 Result(saved, st, cds,
                        persist \o analyze
                            \o <<Call("render_report", NoId, NoId),
                                 Call("send_document_raised", NoId, NoId),
                                 Call("release_document", NoId, NoId)>>,
                        "report_raised", NoId)
          [] OTHER ->
                 Result([saved EXCEPT !.report_ready = TRUE, !.analysis = TRUE],
                        "REPORT", cds,
                        persist \o analyze
                            \o <<Call("render_report", NoId, NoId),
                                 Call("send_document", NoId, NoId),
                                 Call("release_document", NoId, NoId),
                                 Call("schedule_follow_up", NoId, NoId)>>,
                        "report", NoId)

\* send_next_question when the send_message of the card or of the pre-report
\* message raises
send_next_question_raising(ud, st, cds, calls, branch, q) ==
    LET adv == advance_question(ensure_user_data(ud))
        question == adv.question
        ud0 == [adv.ud EXCEPT !.awaiting_text_question = NoId,
                              !.awaiting_other_question = NoOther]
    IN  IF question = NoQuestion
        THEN Result([adv.ud EXCEPT !.diagnosis_complete = TRUE], st, cds,
                    Append(calls, Call("send_pre_report_raised", NoId, NoId)),
                    branch, q)
        ELSE Result(IF question.options = <<>> /\ question.expects_text
                    THEN [ud0 EXCEPT !.awaiting_text_question = question.id]
                    ELSE ud0,
                    st, cds,
                    Append(calls, Call("send_card_raised", question.id, NoId)),
                    branch, q)

\* handle_question_callback when the reply, the edit or the send it awaits raises
handle_question_callback_raising(ud, st, cds, data, card) ==
    LET question == get_question_by_id(data[2])
        payload == data[3]
        option == find_option_by_key(question, payload)
    IN  IF payload = "done"
        THEN send_next_question_raising(ud, st, cds, <<>>, "multi_done_raised",
                                        question.id)
        ELSE IF option.requires_free_text
        THEN Result([ud EXCEPT !.awaiting_other_question =
                        [question_id |-> question.id, option_text |-> option.text,
                         section |-> question.section,
                         multi_select |-> question.multi_select]],
                    st, cds, <<Call("send_custom_prompt_raised", question.id, NoId)>>,
                    "other_prompt_raised", question.id)
        ELSE IF question.multi_select
        THEN Result(toggle_multi_option(ensure_user_data(ud), question, option),
                    st, cds, <<Call("edit_card_raised", question.id, card)>>,
                    "toggle_raised", question.id)
        ELSE send_next_question_raising(
                 record_single_answer(ud, question.id, option.text),
                 st, cds, <<>>, "single_answer_raised", question.id)

\* the buttons of the card sent for the current question
CurrentPresses(cds, ud) ==
    {p \in PressesOf(cds) : /\ p.card # NoId
                            /\ p.card = get_current_question(ud).id
                            /\ cds[p.card] = p.card}

QuestionCallbackCurrent ==
    /\ state \in {"DIAGNOSIS", "READINESS"}
    /\ \E p \in CurrentPresses(cards, user_data) :
           Apply(handle_question_callback(user_data, state, cards, p.data, p.card),
                 "button", NoId)

ReportRequestFails ==
    /\ state = "REPORT"
    /\ hist.faults < MaxFaults
    /\ tasks.tracked => tasks.scheduled < MaxFollowUps
    /\ ensure_user_data(user_data).diagnosis_complete
    /\ \E fault \in ReportFaults :
           /\ fault \in {"persist_raises", "persist_stores_nothing"}
                  => ~ensure_user_data(user_data).sheets_saved
           /\ Apply(handle_report_request_faulty(user_data, state, cards, fault),
                    "button", NoId)

QuestionCallbackFails ==
    /\ state \in {"DIAGNOSIS", "READINESS"}
    /\ hist.faults < MaxFaults
    /\ \E p \in CurrentPresses(cards, user_data) :
           Apply(handle_question_callback_raising(user_data, state, cards,
                                                  p.data, p.card),
                 "button", NoId)

NextFail ==
    \/ StartCommand
    \/ StartButton
    \/ SkillSelection
    \/ VideoConfirmation
    \/ QuestionCallbackCurrent
    \/ TextMessage
    \/ ReportRequest
    \/ DroppedCallback
    \/ ReportRequestFails
    \/ QuestionCallbackFails

FailSpec == Init /\ [][NextFail]_vars

-----------------------------------------------------------------------------
(* Report requests that overlap other updates of the session (ConcSpec):   *)
(* the application processes updates concurrently, so the coroutine of     *)
(* handle_report_request is suspended at each await while other updates    *)
(* of the same chat are dispatched.  The other handlers are taken as       *)
(* running to completion.                                                  *)

\* the session after a questionnaire walked through once: start, start button,
\* skill level, video confirmation, 'a' on q1, 'x' and done on q2, the text
\* "hello" for q3 (a state of Spec)
DoneSession ==
    [reset_user_session(EmptyUserData) EXCEPT
        !.answers = [q \in QIds |->
                        CASE q = "q1" -> Scalar("A text")
                          [] q = "q2" -> Choice(<<"x">>, <<>>)
                          [] OTHER -> Scalar("hello")],
        !.question_index = 3,
        !.skill_level = "skill_level_beginner",
        !.diagnosis_complete = TRUE,
        !.current_question_message = "q3"]

InitDone ==
    /\ state = "REPORT"
    /\ user_data = DoneSession
    /\ cards = [c \in QIds |-> c]
    /\ out = <<Call("send_pre_report", NoId, NoId)>>
    /\ event = [kind |-> "text", branch |-> "text_answer", q |-> "q3",
                from |-> "READINESS", text |-> "hello"]
    /\ tg = TgIdle
    /\ hist = NoHist
    /\ inflight = <<>>

InitConc == InitDone /\ tasks = Untracked

Flight(pc) == [pc |-> pc]

RemoveAt(seq, i) == SubSeq(seq, 1, i - 1) \o SubSeq(seq, i + 1, Len(seq))

\* one segment of the coroutine, from the await it is suspended at to the
\* next await or to its return: the session it leaves, the calls it makes,
\* and the await it stops at ("returned": the handler returned REPORT)
report_segment(ud, pc) ==
    LET ud0 == ensure_user_data(ud)
    IN  CASE pc = "answering" ->
                 IF ~ud0.diagnosis_complete
                 THEN [ud |-> ud0, pc |-> "reminding",
                       out |-> <<Call("send_reminder", NoId, NoId)>>,
                       branch |-> "report_suspended"]
                 ELSE IF ~ud0.sheets_saved
                 THEN [ud |-> ud0, pc |-> "persisting",
                       out |-> <<Call("persist", NoId, NoId)>>,
                       branch |-> "report_suspended"]
                 ELSE [ud |-> ud0, pc |-> "analyzing",
                       out |-> <<Call("analyze", NoId, NoId)>>,
                       branch |-> "report_suspended"]
          [] pc = "reminding" ->
                 [ud |-> ud, pc |-> "returned", out |-> <<>>,
                  branch |-> "report_not_complete"]
          [] pc = "persisting" ->
                 [ud |-> [ud EXCEPT !.sheets_saved = TRUE], pc |-> "analyzing",
                  out |-> <<Call("analyze", NoId, NoId)>>,
                  branch |-> "report_suspended"]
          [] pc = "analyzing" ->
                 [ud |-> ud, pc |-> "rendering",
                  out |-> <<Call("render_report", NoId, NoId)>>,
                  branch |-> "report_suspended"]
          [] pc = "rendering" ->
                 [ud |-> ud, pc |-> "sending",
                  out |-> <<Call("send_document", NoId, NoId)>>,
                  branch |-> "report_suspended"]
          [] pc = "sending" ->
                 [ud |-> [ud EXCEPT !.report_ready = TRUE, !.analysis = TRUE],
                  pc |-> "returned",
                  out |-> <<Call("release_document", NoId, NoId),
                            Call("schedule_follow_up", NoId, NoId)>>,
                  branch |-> "report"]

\* the ConversationHandler picks handle_report_request, which awaits query.answer()
ReportDispatch ==
    /\ state = "REPORT"
    /\ Len(inflight) < MaxInFlight
    /\ inflight # <<>> => hist.overlapped < MaxOverlap
    /\ inflight' = Append(inflight, Flight("answering"))
    /\ event' = [kind |-> "button", branch |-> "report_dispatched", q |-> NoId,
                 from |-> state, text |-> NoId]
    /\ out' = <<Call("answer_query", NoId, NoId)>>
    /\ hist' = Counted(hist, <<>>, "button")
    /\ UNCHANGED <<state, user_data, cards, tg, tasks>>

\* the awaited call of one suspended request completes and its coroutine runs on
ReportResume ==
    \E i \in 1..Len(inflight) :
        LET seg == report_segment(user_data, inflight[i].pc)
        IN  /\ user_data' = seg.ud
            /\ out' = seg.out
            /\ inflight' = IF seg.pc = "returned"
                            THEN RemoveAt(inflight, i)
                            ELSE [inflight EXCEPT ![i] = Flight(seg.pc)]
            /\ state' = IF seg.pc = "returned" THEN "REPORT" ELSE state
            /\ event' = [kind |-> "resume", branch |-> seg.branch, q |-> NoId,
                         from |-> state, text |-> NoId]
            /\ hist' = Counted(hist, seg.out, "resume")
            /\ tasks' = Scheduled(tasks, seg.out)
            /\ UNCHANGED <<cards, tg>>

\* another update of the chat may be served while a request is suspended
Overlapping == inflight # <<>> /\ hist.overlapped < MaxOverlap

NextConc ==
    \/ ReportDispatch
    \/ ReportResume
    \/ Overlapping /\ StartCommand
    \/ Overlapping /\ StartButton
    \/ Overlapping /\ SkillSelection
    \/ Overlapping /\ VideoConfirmation
    \/ Overlapping /\ QuestionCallback
    \/ Overlapping /\ TextMessage
    \/ Overlapping /\ DroppedCallback

ConcSpec == InitConc /\ [][NextConc]_vars

-----------------------------------------------------------------------------
(* The follow-up tasks (FollowSpec): handle_report_request hands            *)
(* _schedule_follow_up(application, chat_id) to application.create_task and *)
(* returns; the task sleeps and then sends the follow-up message.  It holds *)
(* the application and the chat id, not the session.  The user presses the  *)
(* buttons of the card of the current question only.                        *)

InitFollow == InitDone /\ tasks = Tracked

\* the sleep of the oldest pending task is over and its send_message is made
FollowUpFires ==
    /\ tasks.tracked
    /\ tasks.sent < tasks.scheduled
    /\ tasks' = [tasks EXCEPT !.sent = @ + 1]
    /\ out' = <<Call("send_follow_up", NoId, NoId)>>
    /\ event' = [kind |-> "task", branch |-> "follow_up", q |-> NoId,
                 from |-> state, text |-> NoId]
    /\ UNCHANGED <<state, user_data, cards, tg, hist, inflight>>

NextFollow ==
    \/ StartCommand
    \/ StartButton
    \/ SkillSelection
    \/ VideoConfirmation
    \/ QuestionCallbackCurrent
    \/ TextMessage
    \/ ReportRequest
    \/ DroppedCallback
    \/ FollowUpFires

\* the event loop runs every task that is ready
FollowSpec == InitFollow /\ [][NextFollow]_vars /\ WF_vars(FollowUpFires)

-----------------------------------------------------------------------------
(* toggle_multi_option applied twice to the same option (ToggleSpec) *)

ToggleQuestion == get_question_by_id("q2")

ToggleKeys == KeyboardPayloads(ToggleQuestion) \ {"done"}

\* lists of option keys without duplicates
ToggleLists ==
    {l \in UNION {[1..n -> ToggleKeys] : n \in 0..Cardinality(ToggleKeys)} :
        \A i, j \in 1..Len(l) : i # j => l[i] # l[j]}

\* the entries answers[q2] can hold before a toggle: none yet, or a Choice
ToggleEntries == {NoAnswer} \cup {Choice(l, <<>>) : l \in ToggleLists}

SessionWithEntry(entry) ==
    [reset_user_session(EmptyUserData) EXCEPT !.answers[ToggleQuestion.id] = entry]

ToggledEntry(entry, key) ==
    toggle_multi_option(SessionWithEntry(entry), ToggleQuestion,
                        find_option_by_key(ToggleQuestion, key)).answers[ToggleQuestion.id]

InitToggle ==
    /\ state = NoConversation
    /\ user_data = EmptyUserData
    /\ cards = [c \in QIds |-> NoId]
    /\ event = NoEvent
    /\ out = <<>>
    /\ hist = NoHist
    /\ tasks = Untracked
    /\ inflight = <<>>
    /\ \E entry \in ToggleEntries, key \in ToggleKeys :
           tg = [step |-> 0, entry |-> entry, key |-> key,
                 once |-> NoAnswer, twice |-> NoAnswer]

ToggleOnce ==
    /\ tg.step = 0
    /\ tg.key # NoId
    /\ tg' = [tg EXCEPT !.step = 1, !.once = ToggledEntry(tg.entry, tg.key)]
    /\ UNCHANGED <<state, user_data, cards, event, out, hist, tasks, inflight>>

ToggleTwice ==
    /\ tg.step = 1
    /\ tg' = [tg EXCEPT !.step = 2, !.twice = ToggledEntry(tg.once, tg.key)]
    /\ UNCHANGED <<state, user_data, cards, event, out, hist, tasks, inflight>>

NextToggle == ToggleOnce \/ ToggleTwice

ToggleSpec == InitToggle /\ [][NextToggle]_vars

-----------------------------------------------------------------------------
(* Claims *)

NumQuestions == Len(get_all_question_sequence)

SelectedOf(entry) == IF entry.tag = "choice" THEN entry.selected ELSE <<>>

CustomOf(entry) == IF entry.tag = "choice" THEN entry.custom ELSE <<>>

Elems(list) == {list[i] : i \in 1..Len(list)}

AnswerBranches == {"single_answer", "toggle", "custom_multi", "custom_single", "text_answer"}

AdvanceBranches == {"single_answer", "multi_done", "custom_single", "text_answer"}

MissBranches == {"miss_malformed", "miss_question", "miss_option"}

C2_AtMostOneAwaiting ==
    ~(user_data.awaiting_text_question # NoId /\ user_data.awaiting_other_question # NoOther)

\* the event sent the card of question q
SentCard(q) == \E i \in 1..Len(out) : out[i].op = "send_card" /\ out[i].q = q

\* C3: whenever an event records an answer, both awaiting markers are unset
\* when the handling of that event finishes (a marker for the text-only
\* question whose card this very event sent is the new question's, and is not
\* counted as left over).
C3_RecordingClearsBoth ==
    event.branch \in AnswerBranches =>
        /\ user_data.awaiting_other_question = NoOther
        /\ \/ user_data.awaiting_text_question = NoId
           \/ SentCard(user_data.awaiting_text_question)

\* C4 (as stated): toggling the same option twice restores the selected list
\* exactly, order included, whatever the prior list.
C4_ToggleTwiceRestores ==
    tg.step = 2 => SelectedOf(tg.twice) = SelectedOf(tg.entry)

\* C4 (amended): toggling twice keeps the members and the relative order of
\* the other keys; the list is restored exactly when the option was absent or
\* last, and otherwise the option ends up last.
C4_ToggleTwiceMovesToEnd ==
    tg.step = 2 =>
        LET before == SelectedOf(tg.entry)
            after == SelectedOf(tg.twice)
            Other(k) == k # tg.key
        IN  /\ Len(after) = Len(before)
            /\ SelectSeq(after, Other) = SelectSeq(before, Other)
            /\ tg.key \in Elems(before) => after[Len(after)] = tg.key
            /\ tg.key \notin Elems(before) => after = before
            /\ CustomOf(tg.twice) = CustomOf(tg.entry)

\* the option was selected before, at a position that is not the last
C4_Witness ==
    /\ tg.step = 2
    /\ tg.key \in Elems(SelectedOf(tg.entry))
    /\ SelectedOf(tg.entry)[Len(SelectedOf(tg.entry))] # tg.key
    /\ SelectedOf(tg.twice) # SelectedOf(tg.entry)

\* C5: once reportReady is set, a plain-text message received in REPORT (or
\* CHAT) moves the conversation to CHAT and invokes the chat-reply collaborator.
C5_TextAfterReportEntersChat ==
    [][(/\ user_data.report_ready
        /\ state \in {"REPORT", "CHAT"}
        /\ event'.kind = "text"
        /\ event'.text # "")
       => (/\ state' = "CHAT"
           /\ \E i \in 1..Len(out') : out'[i].op = "chat_reply")]_vars

\* C6: an option press, a 'done' signal or a consumed free-text value whose
\* question is not the current question does not change questionIndex.
C6_AdvanceOnlyForCurrent ==
    [][(/\ event'.branch \in AdvanceBranches
        /\ event'.q # get_current_question(user_data).id)
       => user_data'.question_index = user_data.question_index]_vars

\* C7: a routing miss leaves the session and the conversation super-state
\* exactly what they were before the event.
C7_MissKeepsState ==
    [][event'.branch \in MissBranches =>
           (user_data' = user_data /\ state' = state)]_vars

\* the session the claim describes: every key at its initial value or absent
InitialSession ==
    [initialized |-> TRUE,
     answers |-> [q \in QIds |-> NoAnswer],
     question_index |-> 0,
     awaiting_text_question |-> NoId,
     awaiting_other_question |-> NoOther,
     skill_level |-> NoId,
     report_ready |-> FALSE,
     diagnosis_complete |-> FALSE,
     current_question_message |-> NoId,
     sheets_saved |-> FALSE,
     chat_history |-> <<>>,
     analysis |-> FALSE]

\* C8: a start command received in any conversation state moves the
\* conversation to WELCOME and leaves the session equal to the initial session.
C8_StartResets ==
    event.kind = "start" => (state = "WELCOME" /\ user_data = InitialSession)

\* a start command received after a report was delivered
C8_Witness ==
    /\ event.kind = "start"
    /\ event.from = "REPORT"
    /\ state = "WELCOME"
    /\ \E c \in QIds : cards[c] # NoId

PlainOptions(question) ==
    {question.options[i] : i \in {j \in 1..Len(question.options) :
                                     ~question.options[j].requires_free_text}}

TextOnly(question) ==
    question # NoQuestion /\ question.options = <<>> /\ question.expects_text

\* C11: while the current question is text-only the next plain-text message,
\* and while it is single-select the press of one of its options that needs no
\* free text, stores Scalar(message text) resp. Scalar(option text) under the
\* current question's id and advances questionIndex by exactly one.
C11_AnswerCurrentStoresScalar ==
    [][LET current == get_current_question(user_data)
       IN  /\ (/\ TextOnly(current)
               /\ state \in {"DIAGNOSIS", "READINESS"}
               /\ event'.kind = "text")
              => (/\ user_data'.answers =
                         [user_data.answers EXCEPT ![current.id] = Scalar(event'.text)]
                  /\ user_data'.question_index = user_data.question_index + 1)
           /\ (/\ event'.branch = "single_answer"
               /\ event'.q = current.id)
              => (/\ \E o \in PlainOptions(current) :
                         user_data'.answers =
                             [user_data.answers EXCEPT ![current.id] = Scalar(o.text)]
                  /\ user_data'.question_index = user_data.question_index + 1)]_vars

\* C12: for a multi-select question the press of a requiresFreeText option sets
\* awaitingOtherContext and changes no answer; the next plain-text message
\* appends exactly one {optionLabel, value} entry to custom, clears
\* awaitingOtherContext, re-renders that question's card in place, and leaves
\* questionIndex and selected unchanged.
C12_CustomInputKeepsCursor ==
    [][/\ (/\ event'.branch = "other_prompt"
           /\ get_question_by_id(event'.q).multi_select)
          => (/\ user_data'.awaiting_other_question.question_id = event'.q
              /\ user_data'.awaiting_other_question.multi_select
              /\ user_data'.answers = user_data.answers
              /\ user_data'.question_index = user_data.question_index)
       /\ (/\ user_data.awaiting_other_question.multi_select
           /\ event'.kind = "text")
          => LET ctx == user_data.awaiting_other_question
                 q == ctx.question_id
                 old == user_data.answers[q]
             IN  /\ user_data'.answers =
                        [user_data.answers EXCEPT ![q] =
                            Choice(SelectedOf(old),
                                   Append(CustomOf(old),
                                          [option |-> ctx.option_text,
                                           value |-> event'.text]))]
                 /\ user_data'.awaiting_other_question = NoOther
                 /\ user_data'.question_index = user_data.question_index
                 /\ \E i \in 1..Len(out') :
                        /\ out'[i].op = "edit_card"
                        /\ out'[i].q = q
                        /\ out'[i].card = q]_vars

\* C13: for a single-select question, after the press of a requiresFreeText
\* option the next plain-text message becomes that question's Scalar answer,
\* awaitingOtherContext is cleared and the cursor advances by exactly one.
C13_CustomSingleAdvances ==
    [][(/\ user_data.awaiting_other_question # NoOther
        /\ ~user_data.awaiting_other_question.multi_select
        /\ event'.kind = "text")
       => LET q == user_data.awaiting_other_question.question_id
          IN  /\ user_data'.answers =
                     [user_data.answers EXCEPT ![q] = Scalar(event'.text)]
              /\ user_data'.awaiting_other_question = NoOther
              /\ user_data'.question_index = user_data.question_index + 1]_vars

\* C14: within one session the handling of a new inbound event never starts
\* while an earlier event is still awaiting a collaborator call: no second
\* report request is dispatched, and no other update is served, while a
\* report request is suspended at an await.
C14_NoOverlappingHandlers ==
    /\ Len(inflight) <= 1
    /\ hist.overlapped = 0

\* C15: between two resets the persistence collaborator is invoked at most
\* once, however many report requests are handled.
C15_PersistAtMostOnce == hist.persists <= 1

\* the event made a call with one of the outcomes `ops`
Made(ops) == CountOps(out, ops) > 0

\* C16: if the persistence collaborator fails during a report request (it
\* raises, or returns without having stored the answers), the analysis, the
\* report rendering and the document delivery of that request still take place.
C16_PersistFailureDoesNotBlock ==
    Made({"persist_raised", "persist_not_stored"}) =>
        /\ Made({"analyze", "analyze_default"})
        /\ Made({"render_report"})
        /\ Made({"send_document"})

\* C17: a flag is set only when the step it guards succeeded: sheetsSaved is
\* false after a persistence attempt that did not store the answers, and
\* reportReady is false after a request whose analysis, rendering or delivery
\* failed.
C17_FlagsOnlyOnSuccess ==
    /\ Made({"persist_raised", "persist_not_stored"}) => ~user_data.sheets_saved
    /\ Made({"analyze_default", "render_raised", "send_document_raised"})
           => ~user_data.report_ready

\* C18: an event whose handling raises part-way leaves the session exactly as
\* it was before the event.
C18_FailureLeavesSessionUntouched ==
    [][CountOps(out', RaisedOps) > 0 => user_data' = user_data]_vars

\* C19: between two resets each of diagnosisComplete, reportReady and
\* sheetsSaved never changes from true to false.
C19_FlagsMonotone ==
    [][event'.kind # "start" =>
          /\ user_data.diagnosis_complete => user_data'.diagnosis_complete
          /\ user_data.report_ready => user_data'.report_ready
          /\ user_data.sheets_saved => user_data'.sheets_saved]_vars

\* a report request served when all three flags were already set
C19_Witness ==
    /\ event.branch = "report"
    /\ ~Made(PersistOps)
    /\ user_data.diagnosis_complete
    /\ user_data.report_ready
    /\ user_data.sheets_saved

\* C20: a report request that delivers the report creates one follow-up task
\* and returns REPORT without the follow-up having been sent, and every
\* follow-up task created is eventually sent, also when a start command resets
\* the session in between.
C20_FollowUpEventuallySent ==
    /\ [][event'.branch = "report" =>
              /\ state' = "REPORT"
              /\ tasks'.scheduled = tasks.scheduled + 1
              /\ tasks'.sent = tasks.sent
              /\ CountOps(out', {"send_follow_up"}) = 0]_vars
    /\ \A k \in 1..MaxFollowUps : (tasks.scheduled >= k) ~> (tasks.sent >= k)

\* the follow-up is sent after a start command has reset the session
C20_Witness ==
    /\ event.branch = "follow_up"
    /\ event.from = "WELCOME"
    /\ user_data = InitialSession
    /\ tasks.sent = tasks.scheduled

\* C21: whenever the conversation is in DIAGNOSIS or READINESS, the label is
\* the one given by the section of the question at the cursor (DIAGNOSIS for
\* the business section, READINESS otherwise), also after an event that does
\* not advance the cursor.
C21_LabelFollowsCurrentSection ==
    state \in {"DIAGNOSIS", "READINESS"} =>
        /\ get_current_question(user_data) # NoQuestion
        /\ state = _state_for_question(get_current_question(user_data))

-----------------------------------------------------------------------------
(* The answer recorder applied twice with the same arguments (RecorderSpec): *)
(* the session under test is user_data, tg keeps the arguments, the session  *)
(* before the first call and the session after it.                           *)

RecorderOps == {"record_single_answer", "toggle_multi_option", "append_custom_answer"}

\* the custom lists of the drawn entries
CustomLists == { <<>>, <<[option |-> "Other two", value |-> "hello"]>> }

\* what answers[q2] can hold: nothing, a str, a dictionary
RecorderEntries ==
    {NoAnswer, Scalar("hello")}
        \cup {Choice(l, c) : l \in ToggleLists, c \in CustomLists}

\* the arguments of one call: the option toggled resp. the value recorded
RecorderArgs ==
    {[op |-> "record_single_answer", key |-> NoId, value |-> v] : v \in UserTexts}
        \cup {[op |-> "toggle_multi_option", key |-> k, value |-> NoId] : k \in ToggleKeys}
        \cup {[op |-> "append_custom_answer", key |-> "other", value |-> v] : v \in UserTexts}

\* one call; on a str entry toggle and append raise AttributeError at
\* entry.setdefault, before anything is written
recorder_call(ud, args) ==
    LET question == ToggleQuestion
        option == find_option_by_key(question, args.key)
    IN  CASE args.op = "record_single_answer" ->
                 record_single_answer(ud, question.id, args.value)
          [] args.op = "toggle_multi_option" ->
                 IF RaisesOnEntry(ud, question.id) THEN ud
                 ELSE toggle_multi_option(ud, question, option)
          [] args.op = "append_custom_answer" ->
                 IF RaisesOnEntry(ud, question.id) THEN ud
                 ELSE append_custom_answer(ud, question.id, option.text, args.value)

InitRecorder ==
    /\ state = NoConversation
    /\ cards = [c \in QIds |-> NoId]
    /\ event = NoEvent
    /\ out = <<>>
    /\ hist = NoHist
    /\ tasks = Untracked
    /\ inflight = <<>>
    /\ \E entry \in RecorderEntries, args \in RecorderArgs :
           /\ user_data = SessionWithEntry(entry)
           /\ tg = [step |-> 0, args |-> args, before |-> SessionWithEntry(entry),
                    once |-> SessionWithEntry(entry)]

RecorderFirstCall ==
    /\ tg.step = 0
    /\ user_data' = recorder_call(user_data, tg.args)
    /\ tg' = [tg EXCEPT !.step = 1, !.once = recorder_call(user_data, tg.args)]
    /\ UNCHANGED <<state, cards, event, out, hist, tasks, inflight>>

RecorderSecondCall ==
    /\ tg.step = 1
    /\ user_data' = recorder_call(user_data, tg.args)
    /\ tg' = [tg EXCEPT !.step = 2]
    /\ UNCHANGED <<state, cards, event, out, hist, tasks, inflight>>

NextRecorder == RecorderFirstCall \/ RecorderSecondCall

RecorderSpec == InitRecorder /\ [][NextRecorder]_vars

\* C23 (as stated): each recorder operation is idempotent: a second invocation
\* with the same arguments leaves the session exactly as it was after the first.
C23_RecorderIdempotent ==
    tg.step = 2 => user_data = tg.once

\* C23 (amended): only recordScalar is idempotent.  A second toggleMultiOption
\* with the same arguments undoes the first (selected holds the keys it held
\* before the first call, and differs from what the first call left); each
\* appendCustomAnswer appends one more entry, so after two calls custom ends
\* with two equal entries.  No call changes anything but that question's answer.
C23_RecorderSecondCall ==
    tg.step = 2 =>
        LET q == ToggleQuestion.id
            before == tg.before.answers[q]
            once == tg.once.answers[q]
            twice == user_data.answers[q]
            item == [option |-> find_option_by_key(ToggleQuestion, tg.args.key).text,
                     value |-> tg.args.value]
        IN  /\ user_data = [tg.before EXCEPT !.answers[q] = twice]
            /\ tg.args.op = "record_single_answer" =>
                   (twice = Scalar(tg.args.value) /\ user_data = tg.once)
            /\ (tg.args.op = "toggle_multi_option" /\ before.tag # "scalar") =>
                   /\ Elems(SelectedOf(twice)) = Elems(SelectedOf(before))
                   /\ (tg.args.key \in Elems(SelectedOf(once)))
                          # (tg.args.key \in Elems(SelectedOf(twice)))
                   /\ CustomOf(twice) = CustomOf(before)
            /\ (tg.args.op = "append_custom_answer" /\ before.tag # "scalar") =>
                   /\ CustomOf(once) = Append(CustomOf(before), item)
                   /\ CustomOf(twice) = Append(CustomOf(once), item)
                   /\ SelectedOf(twice) = SelectedOf(before)
            /\ before.tag = "scalar" /\ tg.args.op # "record_single_answer" =>
                   user_data = tg.before

\* the same custom value appended twice to an entry that already held one
C23_Witness ==
    /\ tg.step = 2
    /\ tg.args.op = "append_custom_answer"
    /\ tg.before.answers[ToggleQuestion.id].tag = "choice"
    /\ Len(CustomOf(user_data.answers[ToggleQuestion.id])) = 3
    /\ Len(CustomOf(tg.once.answers[ToggleQuestion.id])) = 2

-----------------------------------------------------------------------------
(* reset_user_session and ensure_user_data applied to drawn sessions        *)
(* (SessionSpec): the session under test is user_data, tg keeps the session *)
(* drawn and the calls made on it so far.                                   *)

\* sessions the conversation passes through: the empty dictionary of a new
\* chat, a fresh session, a questionnaire under way, a completed one, a
\* delivered report and a chat after it
DrawnSessions ==
    { EmptyUserData,
      reset_user_session(EmptyUserData),
      [reset_user_session(EmptyUserData) EXCEPT !.skill_level = "skill_level_expert"],
      [SessionWithEntry(Choice(<<"y", "x">>, <<[option |-> "Other two", value |-> "hello"]>>))
          EXCEPT !.answers["q1"] = Scalar("A text"),
                 !.question_index = 1,
                 !.skill_level = "skill_level_beginner",
                 !.awaiting_other_question =
                     [question_id |-> "q2", option_text |-> "Other two",
                      section |-> "readiness", multi_select |-> TRUE],
                 !.current_question_message = "q2"],
      [DoneSession EXCEPT !.question_index = 2,
                          !.answers["q3"] = NoAnswer,
                          !.diagnosis_complete = FALSE,
                          !.awaiting_text_question = "q3"],
      DoneSession,
      [DoneSession EXCEPT !.sheets_saved = TRUE],
      [DoneSession EXCEPT !.sheets_saved = TRUE, !.report_ready = TRUE,
                          !.analysis = TRUE],
      [DoneSession EXCEPT !.sheets_saved = TRUE, !.report_ready = TRUE,
                          !.analysis = TRUE,
                          !.chat_history = <<[role |-> "user", message |-> "hello"],
                                             [role |-> "assistant", message |-> "reply"]>>] }

InitSession ==
    /\ state = NoConversation
    /\ cards = [c \in QIds |-> NoId]
    /\ event = NoEvent
    /\ out = <<>>
    /\ hist = NoHist
    /\ tasks = Untracked
    /\ inflight = <<>>
    /\ \E ud \in DrawnSessions :
           /\ user_data = ud
           /\ tg = [before |-> ud, prev |-> ud, calls |-> <<>>]

\* prev: the session the last call was made on
ResetSession ==
    /\ Len(tg.calls) < MaxCalls
    /\ user_data' = reset_user_session(user_data)
    /\ tg' = [tg EXCEPT !.prev = user_data, !.calls = Append(@, "reset")]
    /\ UNCHANGED <<state, cards, event, out, hist, tasks, inflight>>

EnsureSession ==
    /\ Len(tg.calls) < MaxCalls
    /\ user_data' = ensure_user_data(user_data)
    /\ tg' = [tg EXCEPT !.prev = user_data, !.calls = Append(@, "ensure")]
    /\ UNCHANGED <<state, cards, event, out, hist, tasks, inflight>>

NextSession == ResetSession \/ EnsureSession

SessionSpec == InitSession /\ [][NextSession]_vars

\* the last call made, "none" before the first
LastCall == IF tg.calls = <<>> THEN "none" ELSE tg.calls[Len(tg.calls)]

\* C24: ensureSession changes nothing on an initialized session (answers map
\* present) and performs a full reset on an uninitialized one; resetSession
\* followed by ensureSession, applied twice, yields the same session as
\* applied once.
C24_EnsureAndReset ==
    /\ LastCall = "ensure" =>
           /\ tg.prev.initialized => user_data = tg.prev
           /\ ~tg.prev.initialized => user_data = InitialSession
    /\ LastCall = "reset" => user_data = InitialSession
    /\ tg.calls = <<"reset", "ensure", "reset", "ensure">> =>
           /\ user_data = InitialSession
           /\ user_data = ensure_user_data(reset_user_session(tg.before))

\* reset and ensure applied twice to a session with a delivered report and a
\* chat history: the last ensure found an initialized session and left it as it was
C24_Witness ==
    /\ tg.calls = <<"reset", "ensure", "reset", "ensure">>
    /\ tg.before.report_ready
    /\ tg.before.chat_history # <<>>
    /\ tg.prev = InitialSession
    /\ user_data = InitialSession

-----------------------------------------------------------------------------
(* Two conversations served by one application (PairSpec).  The             *)
(* ConversationHandler of build_application keeps its default key (chat id, *)
(* user id) for the conversation state, while context.user_data is the      *)
(* dictionary of the user id alone.  Conversation A is user u1 in chat 1;   *)
(* conversation B is in chat 2, of user u2 or again of user u1 (the bot     *)
(* added to a group, say).  state, user_data and cards are those of A and   *)
(* of u1; tg keeps B's state, the cards of chat 2 and the dictionary of u2, *)
(* and a replica of B that is served B's updates only.  The users of        *)
(* PairSpec press the buttons of the card of the question at the cursor,    *)
(* and no option that asks for free text; A's user chooses the beginner     *)
(* level and B's the expert level.                                          *)

NoUpdate == [kind |-> "none", data |-> <<>>, card |-> NoId, text |-> NoId]

\* the updates a user can send into a chat whose question cards are cds: the
\* buttons pressed are those of the card of the question at the cursor, the
\* skill level chosen is `choice`, the text sent is "hello"
PairUpdates(cds, ud, choice) ==
    { [NoUpdate EXCEPT !.kind = "start"],
      [NoUpdate EXCEPT !.kind = "start_button"],
      [NoUpdate EXCEPT !.kind = "video"],
      [NoUpdate EXCEPT !.kind = "report"] }
    \cup { [NoUpdate EXCEPT !.kind = "skill", !.data = <<choice>>],
           [NoUpdate EXCEPT !.kind = "text", !.text = "hello"] }
    \cup { [NoUpdate EXCEPT !.kind = "press", !.data = p.data, !.card = p.card]
             : p \in {pp \in CurrentPresses(cds, ud) :
                         ~find_option_by_key(get_question_by_id(pp.data[2]),
                                             pp.data[3]).requires_free_text} }

\* the dispatch table of the ConversationHandler, for a conversation in state st
serve(ud, st, cds, u) ==
    CASE u.kind = "start" -> start_command(ud, cds)
      [] u.kind = "start_button" /\ st = "WELCOME" -> handle_start_button(ud, cds)
      [] u.kind = "skill" /\ st = "SKILL_LEVEL" ->
             handle_skill_selection(ud, cds, u.data[1])
      [] u.kind = "video" /\ st = "VIDEO" -> handle_video_confirmation(ud, cds)
      [] u.kind = "press" /\ st \in {"DIAGNOSIS", "READINESS"} ->
             handle_question_callback(ud, st, cds, u.data, u.card)
      [] u.kind = "report" /\ st = "REPORT" -> handle_report_request(ud, cds)
      [] u.kind = "text" /\ st \in {"DIAGNOSIS", "READINESS"} ->
             handle_text_response(ud, st, cds, u.text)
      [] u.kind = "text" /\ st = "CHAT" -> handle_chat_message(ud, st, cds, u.text)
      [] OTHER -> Result(ud, st, cds, <<>>, "dropped", NoId)

\* context.user_data of conversation B
SessionB == IF tg.shared THEN user_data ELSE tg.ud

InitPair ==
    /\ state = NoConversation
    /\ user_data = EmptyUserData
    /\ cards = [c \in QIds |-> NoId]
    /\ event = NoEvent
    /\ out = <<>>
    /\ hist = NoHist
    /\ tasks = Untracked
    /\ inflight = <<>>
    /\ \E shared \in BOOLEAN :
           tg = [shared |-> shared, starts |-> [A |-> 0, B |-> 0],
                 st |-> NoConversation, ud |-> EmptyUserData,
                 cards |-> [c \in QIds |-> NoId],
                 alone |-> [st |-> NoConversation, ud |-> EmptyUserData,
                            cards |-> [c \in QIds |-> NoId]]]

\* an update of conversation A
ServeA ==
    \E u \in PairUpdates(cards, user_data, "skill_level_beginner") :
        LET r == serve(user_data, state, cards, u)
        IN  /\ r.branch # "dropped"
            /\ u.kind = "start" => tg.starts.A < MaxStarts
            /\ state' = r.st
            /\ user_data' = r.ud
            /\ cards' = r.cards
            /\ out' = r.out
            /\ event' = [kind |-> "A", branch |-> r.branch, q |-> r.q, from |-> state,
                         text |-> u.text]
            /\ tg' = [tg EXCEPT !.starts.A = IF u.kind = "start" THEN @ + 1 ELSE @]
            /\ UNCHANGED <<hist, tasks, inflight>>

\* an update of conversation B; the replica is served the same update
ServeB ==
    \E u \in PairUpdates(tg.cards, SessionB, "skill_level_expert") :
        LET r == serve(SessionB, tg.st, tg.cards, u)
            a == serve(tg.alone.ud, tg.alone.st, tg.alone.cards, u)
        IN  /\ r.branch # "dropped"
            /\ u.kind = "start" => tg.starts.B < MaxStarts
            /\ user_data' = IF tg.shared THEN r.ud ELSE user_data
            /\ tg' = [tg EXCEPT !.starts.B = IF u.kind = "start" THEN @ + 1 ELSE @,
                                !.st = r.st,
                                !.ud = IF tg.shared THEN @ ELSE r.ud,
                                !.cards = r.cards,
                                !.alone = [st |-> a.st, ud |-> a.ud, cards |-> a.cards]]
            /\ out' = r.out
            /\ event' = [kind |-> "B", branch |-> r.branch, q |-> r.q, from |-> tg.st,
                         text |-> u.text]
            /\ UNCHANGED <<state, cards, hist, tasks, inflight>>

NextPair == ServeA \/ ServeB

PairSpec == InitPair /\ [][NextPair]_vars

\* C25: handling an event of one session never reads or writes the state of a
\* different session: after any interleaving of the events of the sessions A
\* and B, B's session is the one that B's events alone produce.
C25_SessionsIsolated ==
    tg.st # NoConversation =>
        /\ SessionB = tg.alone.ud
        /\ tg.st = tg.alone.st

-----------------------------------------------------------------------------
(* Projections of the session: answer texts, analysis payload, card         *)
(* (bot/utils.py, bot/handlers.py, bot/keyboards.py).  A text is a string;  *)
(* "\n".join and f-strings are string concatenation.                        *)

\* the text of each question, split at its markup markers and whitespace; the
\* backquote is written "~"
QuestionTokens ==
    [q \in QIds |->
        CASE q = "q1" -> <<">", " ", "**", "One", "**", "\n", ">", "_", "pick", "_">>
          [] q = "q2" -> <<"Two", " ", "\n", "~", "x", "~", " ">>
          [] OTHER -> <<"*", "Three", "*">>]

\* (key, text) pairs of messages.SKILL_LEVEL_OPTIONS
SkillLevelOptions ==
    << [key |-> "skill_level_beginner", text |-> "Beginner"],
       [key |-> "skill_level_expert", text |-> "Expert"] >>

RECURSIVE Concat(_)
Concat(tokens) ==
    IF tokens = <<>> THEN "" ELSE Head(tokens) \o Concat(Tail(tokens))

\* separator.join(parts)
RECURSIVE Join(_, _)
Join(separator, parts) ==
    IF parts = <<>> THEN ""
    ELSE IF Len(parts) = 1 THEN parts[1]
    ELSE parts[1] \o separator \o Join(separator, Tail(parts))

question_text(question) == Concat(QuestionTokens[question.id])

IsSpace(token) == token \in {" ", "\n"}

RECURSIVE DropSpaces(_)
DropSpaces(tokens) ==
    IF tokens # <<>> /\ IsSpace(Head(tokens)) THEN DropSpaces(Tail(tokens)) ELSE tokens

\* whether the whitespace run `tokens` starts with ends in a newline
RECURSIVE SpacesEndLine(_, _)
SpacesEndLine(tokens, ended) ==
    IF tokens # <<>> /\ IsSpace(Head(tokens))
    THEN SpacesEndLine(Tail(tokens), Head(tokens) = "\n")
    ELSE ended

\* re.sub(r"^>\s*", "", text, flags=re.MULTILINE)
RECURSIVE DropQuotes(_, _)
DropQuotes(tokens, line_start) ==
    IF tokens = <<>> THEN <<>>
    ELSE IF line_start /\ Head(tokens) = ">"
    THEN DropQuotes(DropSpaces(Tail(tokens)), SpacesEndLine(Tail(tokens), FALSE))
    ELSE <<Head(tokens)>> \o DropQuotes(Tail(tokens), Head(tokens) = "\n")

\* re.sub(r"\s+", " ", text)
RECURSIVE CollapseSpaces(_)
CollapseSpaces(tokens) ==
    IF tokens = <<>> THEN <<>>
    ELSE IF IsSpace(Head(tokens))
    THEN <<" ">> \o CollapseSpaces(DropSpaces(tokens))
    ELSE <<Head(tokens)>> \o CollapseSpaces(Tail(tokens))

\* str.strip() of a text whose whitespace runs are single spaces
StripEnds(tokens) ==
    LET first == IF tokens # <<>> /\ IsSpace(Head(tokens)) THEN 2 ELSE 1
        last == IF tokens # <<>> /\ IsSpace(tokens[Len(tokens)])
                THEN Len(tokens) - 1 ELSE Len(tokens)
    IN  SubSeq(tokens, first, last)

NotMarker(token) == token \notin {"**", "*", "~", "_"}

strip_markdown(tokens) ==
    Concat(StripEnds(CollapseSpaces(SelectSeq(DropQuotes(tokens, TRUE), NotMarker))))

get_skill_level_text(ud) ==
    LET hits == {i \in 1..Len(SkillLevelOptions) : SkillLevelOptions[i].key = ud.skill_level}
    IN  IF hits = {} THEN ""
        ELSE SkillLevelOptions[CHOOSE i \in hits : \A j \in hits : i <= j].text

\* get_answer: None (NoAnswer) when the key or the answers map is missing
get_answer(ud, question_id) == ud.answers[question_id]

\* the option texts of the selected keys the question has, in selected order
RECURSIVE SelectedTexts(_, _)
SelectedTexts(question, keys) ==
    IF keys = <<>> THEN <<>>
    ELSE LET option == find_option_by_key(question, Head(keys))
         IN  (IF option = NoOption THEN <<>> ELSE <<option.text>>)
                 \o SelectedTexts(question, Tail(keys))

\* "option: value" of the custom entries whose value is not empty, in custom order
RECURSIVE CustomTexts(_)
CustomTexts(custom) ==
    IF custom = <<>> THEN <<>>
    ELSE (IF Head(custom).value = "" THEN <<>>
          ELSE <<Head(custom).option \o ": " \o Head(custom).value>>)
             \o CustomTexts(Tail(custom))

\* an answer text that is empty on every call after the first made on a session
format_answer_counting_calls(question, ud) ==
    IF tg.calls # <<>> THEN "" ELSE "first"

\* answers hold a str or a dictionary, never a list
format_question_answer(question, ud) ==
    LET answer == get_answer(ud, question.id)
    IN  CASE answer = NoAnswer -> ""
          [] answer.tag = "choice" ->
                 Join("\n", SelectedTexts(question, answer.selected)
                                \o CustomTexts(answer.custom))
          [] OTHER -> answer.value

collect_all_answers(ud) ==
    [q \in QIds |-> format_question_answer(get_question_by_id(q), ud)]

\* pairs for the answered questions only
pairs_of_answered_only(ud) ==
    LET Answered(question) == ud.answers[question.id] # NoAnswer
        answered == SelectSeq(get_all_question_sequence, Answered)
    IN  [i \in 1..Len(answered) |->
            [id |-> answered[i].id,
             question |-> strip_markdown(QuestionTokens[answered[i].id]),
             answer |-> format_question_answer(answered[i], ud)]]

build_question_answer_pairs(ud) ==
    [i \in 1..Len(get_all_question_sequence) |->
        LET question == get_all_question_sequence[i]
        IN  [id |-> question.id,
             question |-> strip_markdown(QuestionTokens[question.id]),
             answer |-> format_question_answer(question, ud)]]

_build_analysis_payload(ud) ==
    [skill_level |-> get_skill_level_text(ud),
     skill_level_key |-> ud.skill_level,
     answers |-> build_question_answer_pairs(ud),
     answers_by_id |-> collect_all_answers(ud)]

Prefixed(prefix, lines) == [i \in 1..Len(lines) |-> prefix \o lines[i]]

\* "*selected:*" stands for the heading the source appends
_format_question_text(question, ud) ==
    LET entry == get_answer(ud, question.id)
        selected_lines ==
            IF entry.tag = "choice"
            THEN Prefixed("- ", SelectedTexts(question, entry.selected)
                                    \o CustomTexts(entry.custom))
            ELSE <<>>
    IN  IF selected_lines = <<>> THEN question_text(question)
        ELSE question_text(question) \o "\n\n*selected:*\n" \o Join("\n", selected_lines)

\* one row per option, the text the same whether selected or not, and a last
\* row "done" for a multi-select question
question_options_keyboard(question, selected_options) ==
    [i \in 1..Len(question.options) |->
        [text |-> question.options[i].text,
         callback_data |-> "q|" \o question.id \o "|" \o question.options[i].key]]
    \o (IF question.multi_select
        THEN <<[text |-> "done", callback_data |-> "q|" \o question.id \o "|done"]>>
        ELSE <<>>)

\* what _send_question and _refresh_question_message hand to the transport
render_card(question, ud) ==
    [text |-> _format_question_text(question, ud),
     keyboard |-> question_options_keyboard(
                      question, Elems(get_selected_option_keys(ud, question.id)))]

-----------------------------------------------------------------------------
(* The projections applied to drawn sessions (FormatSpec): the session is   *)
(* user_data, tg keeps the session drawn and the calls made with their      *)
(* results.                                                                 *)

OtherTwo(value) == [option |-> "Other two", value |-> value]

\* what answers[q2] can hold when a projection is called; "z" is a key that
\* no option of q2 has
FormatEntries ==
    {NoAnswer}
        \cup {Choice(l, c) : l \in { <<>>, <<"x">>, <<"y", "x">>, <<"z", "x">> },
                             c \in { <<>>, <<OtherTwo("hello")>>,
                                     <<OtherTwo(""), OtherTwo("hello")>> }}

FormatSessions ==
    {EmptyUserData}
        \cup {[base EXCEPT !.answers["q2"] = entry] :
                 base \in { reset_user_session(EmptyUserData),
                            DoneSession,
                            [DoneSession EXCEPT !.answers["q3"] = Scalar(""),
                                                !.skill_level = "skill_level_expert"] },
                 entry \in FormatEntries}

InitFormat ==
    /\ state = NoConversation
    /\ cards = [c \in QIds |-> NoId]
    /\ event = NoEvent
    /\ out = <<>>
    /\ hist = NoHist
    /\ tasks = Untracked
    /\ inflight = <<>>
    /\ \E ud \in FormatSessions :
           /\ user_data = ud
           /\ tg = [before |-> ud, calls |-> <<>>]

\* the functions read user_data with dict.get and write nothing
Called(fn, q, value) ==
    /\ Len(tg.calls) < MaxRepeats
    /\ tg' = [tg EXCEPT !.calls = Append(@, [fn |-> fn, q |-> q, value |-> value])]
    /\ UNCHANGED <<state, user_data, cards, event, out, hist, tasks, inflight>>

FormatAnswer ==
    \E q \in QIds :
        /\ q \in QIds
        /\ Called("format_question_answer", q,
                  format_question_answer(get_question_by_id(q), user_data))

BuildPayload ==
    /\ Len(tg.calls) < MaxRepeats
    /\ Called("_build_analysis_payload", NoId, _build_analysis_payload(user_data))

RenderCard ==
    \E q \in QIds :
        /\ q \in QIds
        /\ Called("render_card", q, render_card(get_question_by_id(q), user_data))

NextFormat == FormatAnswer \/ BuildPayload \/ RenderCard

FormatSpec == InitFormat /\ [][NextFormat]_vars

LabelValueLines(custom) ==
    [i \in 1..Len(custom) |-> custom[i].option \o ": " \o custom[i].value]

\* the option texts of the keys the question has, in the order of `keys`
OptionTextsOf(question, keys) ==
    LET Known(k) == find_option_by_key(question, k) # NoOption
        known == SelectSeq(keys, Known)
    IN  [i \in 1..Len(known) |-> find_option_by_key(question, known[i]).text]

\* C27: formatAnswer of a Choice yields, in this order, the option text of
\* every selected key that exists on the question (keys not found skipped) and
\* one "label: value" line for each custom entry; a Scalar yields its string
\* and a missing answer the empty string.
C27_FormatAnswerLines ==
    \A i \in 1..Len(tg.calls) :
        tg.calls[i].fn = "format_question_answer" =>
            LET question == get_question_by_id(tg.calls[i].q)
                answer == user_data.answers[question.id]
            IN  tg.calls[i].value =
                    CASE answer.tag = "choice" ->
                             Join("\n", OptionTextsOf(question, answer.selected)
                                            \o LabelValueLines(answer.custom))
                      [] answer.tag = "scalar" -> answer.value
                      [] OTHER -> ""

\* C28: buildAnalysisPayload returns an answers list with exactly one entry
\* per catalog question, in catalog order, whose answer text is formatAnswer
\* of that question (empty for a question without an answer), and an
\* answersById map whose keys are exactly the catalog ids, with the same texts.
C28_PayloadCoversCatalog ==
    \A i \in 1..Len(tg.calls) :
        tg.calls[i].fn = "_build_analysis_payload" =>
            LET payload == tg.calls[i].value
            IN  /\ Len(payload.answers) = NumQuestions
                /\ DOMAIN payload.answers_by_id = QIds
                /\ \A k \in 1..NumQuestions :
                       LET question == get_all_question_sequence[k]
                           pair == payload.answers[k]
                       IN  /\ pair.id = question.id
                           /\ pair.answer = format_question_answer(question, user_data)
                           /\ user_data.answers[question.id] = NoAnswer
                                  => pair.answer = ""
                           /\ payload.answers_by_id[question.id] = pair.answer

\* the payload of a session that has answers for q1 and q3 and none for q2
C28_Witness ==
    /\ tg.calls # <<>>
    /\ tg.calls[1].fn = "_build_analysis_payload"
    /\ user_data.answers["q2"] = NoAnswer
    /\ tg.calls[1].value.answers_by_id =
           [q \in QIds |-> CASE q = "q1" -> "A text" [] q = "q2" -> "" [] OTHER -> "hello"]
    /\ tg.calls[1].value.answers[1].question = "One pick"
    /\ tg.calls[1].value.skill_level = "Beginner"

-----------------------------------------------------------------------------
(* handle_chat_message applied to a session whose report was delivered      *)
(* (ChatSpec).  No state of the dispatch table hands a text message to it   *)
(* once report_ready is set (REPORT has no text handler), so ChatSpec       *)
(* applies the handler to each text message directly.  tg logs every entry  *)
(* the handler appended.                                                    *)

\* stripped texts of the chat messages
ChatTexts == {"hello", "again", ""}

\* what generate_chat_reply returns: a reply, or "" when the call failed
ChatReplies == {"reply", ""}

\* handle_chat_message with the reply the collaborator returned
handle_chat_message_replied(ud, st, cds, text, reply) ==
    LET ud0 == ensure_user_data(ud)
        asked == append_chat_history(ud0, "user", text, ChatHistoryLimit)
    IN  IF ~(ud0.report_ready /\ text # "")
        THEN handle_chat_message(ud, st, cds, text)
        ELSE IF reply # ""
        THEN Result(append_chat_history(asked, "assistant", reply, ChatHistoryLimit),
                    "CHAT", cds,
                    <<Call("chat_reply", NoId, NoId), Call("send_reply", NoId, NoId)>>,
                    "chat", NoId)
        ELSE Result(asked, "CHAT", cds,
                    <<Call("chat_reply_failed", NoId, NoId),
                      Call("send_fallback", NoId, NoId)>>,
                    "chat_no_reply", NoId)

InitChat ==
    /\ state = "REPORT"
    /\ user_data = [DoneSession EXCEPT !.sheets_saved = TRUE, !.report_ready = TRUE,
                                       !.analysis = TRUE]
    /\ cards = [c \in QIds |-> c]
    /\ event = NoEvent
    /\ out = <<>>
    /\ hist = NoHist
    /\ tasks = Untracked
    /\ inflight = <<>>
    /\ tg = [messages |-> 0, appended |-> <<>>]

ChatMessage ==
    /\ tg.messages < MaxChatMessages
    /\ \E text \in ChatTexts, reply \in ChatReplies :
           LET r == handle_chat_message_replied(user_data, state, cards, text, reply)
               said == IF text = "" THEN <<>>
                       ELSE <<[role |-> "user", message |-> text]>>
               answered == IF text # "" /\ reply # ""
                           THEN <<[role |-> "assistant", message |-> reply]>>
                           ELSE <<>>
           IN  /\ text = "" => reply = ""
               /\ state' = r.st
               /\ user_data' = r.ud
               /\ cards' = r.cards
               /\ out' = r.out
               /\ event' = [kind |-> "text", branch |-> r.branch, q |-> r.q,
                            from |-> state, text |-> text]
               /\ tg' = [messages |-> tg.messages + 1,
                         appended |-> tg.appended \o said \o answered]
               /\ UNCHANGED <<hist, tasks, inflight>>

NextChat == ChatMessage

ChatSpec == InitChat /\ [][NextChat]_vars

\* C29: after any sequence of chat messages chatHistory holds at most 12
\* entries, and they are the most recently appended entries in append order
\* (the oldest are evicted first).
C29_ChatHistoryBounded ==
    LET n == Len(tg.appended)
        first == IF n > ChatHistoryLimit THEN n - ChatHistoryLimit + 1 ELSE 1
    IN  /\ Len(user_data.chat_history) <= 12
        /\ user_data.chat_history = SubSeq(tg.appended, first, n)

\* thirteen entries were appended: the oldest one is gone
C29_Witness ==
    /\ Len(tg.appended) = 13
    /\ Len(user_data.chat_history) = 12
    /\ user_data.chat_history[1] = tg.appended[2]
    /\ user_data.chat_history[1] # tg.appended[1]
    /\ event.branch = "chat_no_reply"

\* C30: when the analysis collaborator fails (missing configuration, API
\* error, empty output or unparsable JSON: analyze_answers returns the default
\* analysis), the report request proceeds with the default analysis: the
\* report is still rendered and delivered and reportReady is set.
C30_AnalysisFailureProceeds ==
    Made({"analyze_default"}) =>
        /\ Made({"render_report"})
        /\ Made({"send_document"})
        /\ user_data.report_ready
        /\ user_data.analysis
        /\ state = "REPORT"
        /\ event.branch = "report"

\* the first report request of a completed questionnaire, its analysis failed
C30_Witness ==
    /\ Made({"analyze_default"})
    /\ Made({"persist"})
    /\ Made({"send_document"})
    /\ event.from = "REPORT"
    /\ user_data.report_ready

-----------------------------------------------------------------------------
(* The report document *)

\* the positions of `calls` that hold a call with one of the outcomes `ops`
Positions(calls, ops) == {i \in 1..Len(calls) : calls[i].op \in ops}

\* C31: the document rendered for a report request is released after the
\* delivery attempt, whether send_document succeeded or raised: every
\* rendering is followed by a delivery attempt and then by one release, and
\* nothing is released that was not rendered.
C31_DocumentReleased ==
    /\ \A i \in Positions(out, {"render_report"}) :
           \E j \in Positions(out, {"send_document", "send_document_raised"}) :
               \E k \in Positions(out, {"release_document"}) : i < j /\ j < k
    /\ CountOps(out, {"release_document"}) = CountOps(out, {"render_report"})

\* a report request whose send_document raised, after an earlier request had
\* stored the answers and delivered a report
C31_Witness ==
    /\ Made({"send_document_raised"})
    /\ Made({"release_document"})
    /\ ~Made(PersistOps)
    /\ event.branch = "report_raised"
    /\ user_data.report_ready

-----------------------------------------------------------------------------
(* The webhook entry point (api/webhook.py, WebhookSpec): handler(event)    *)
(* answers one request; a request that passes the checks is handed to       *)
(* _process_update, which builds an application, initializes and starts it, *)
(* processes the update and shuts the application down.  The calls of the   *)
(* application object (initialize, start, process_update, stop, shutdown)   *)
(* and Update.de_json belong to the library: each returns or raises.        *)

SecretHeader == "x-telegram-bot-api-secret-token"

\* str.lower() of the header names a request carries
lower(name) ==
    CASE name = "X-Telegram-Bot-Api-Secret-Token" -> "x-telegram-bot-api-secret-token"
      [] name = "X-TELEGRAM-BOT-API-SECRET-TOKEN" -> "x-telegram-bot-api-secret-token"
      [] name = "Content-Type" -> "content-type"
      [] OTHER -> name

\* str.upper() of the method names a request carries
upper(method) ==
    CASE method = "get" -> "GET"
      [] method = "post" -> "POST"
      [] OTHER -> method

\* the texts a body decodes to, and what json.loads makes of them: the update
\* they describe; a text outside the table is not JSON
UpdateJson ==
    [t \in {"{message: /start}", "{callback_query: start_intro}"} |->
        IF t = "{message: /start}"
        THEN [NoUpdate EXCEPT !.kind = "start"]
        ELSE [NoUpdate EXCEPT !.kind = "start_button"]]

\* ok: json.loads returned; otherwise it raised JSONDecodeError
json_loads(text) ==
    IF text \in DOMAIN UpdateJson
    THEN [ok |-> TRUE, value |-> UpdateJson[text]]
    ELSE [ok |-> FALSE, value |-> NoUpdate]

\* a body: the text itself (plain), the base64 encoding of the text (base64),
\* a string that b64decode or the UTF-8 decoding rejects (broken), or no body
\* (None or the empty string)
Body(form, text) == [form |-> form, text |-> text]

NoBody == Body("missing", "")

\* base64.b64decode(body).decode("utf-8"); a plain JSON text is taken as
\* rejected by the decoder
b64decode(body) ==
    IF body.form = "base64"
    THEN [ok |-> TRUE, body |-> Body("plain", body.text)]
    ELSE [ok |-> FALSE, body |-> body]

\* the text handed to json.loads: a base64 body that was not decoded is not JSON
TextOf(body) == IF body.form = "plain" THEN body.text ELSE "base64:" \o body.text

Header(key, value) == [key |-> key, value |-> value]

\* first: the value of the first header whose lowered name is the secret
\* header's (the order is the dictionary's)
RECURSIVE first_secret_header(_)
first_secret_header(headers) ==
    IF headers = <<>>
    THEN [found |-> FALSE, value |-> NoId]
    ELSE IF lower(Head(headers).key) = SecretHeader
    THEN [found |-> TRUE, value |-> Head(headers).value]
    ELSE first_secret_header(Tail(headers))

\* a check that lets a request without the header pass
validate_secret_header_optional(headers, expected) ==
    \/ expected = ""
    \/ ~first_secret_header(headers).found
    \/ first_secret_header(headers).value = expected

_validate_secret(headers, expected) ==
    \/ expected = ""
    \/ /\ first_secret_header(headers).found
       /\ first_secret_header(headers).value = expected

\* what step of _process_update raises, and whether stop and shutdown raise
\* when they are called
Faults ==
    {f \in [step : {"none", "initialize", "start", "de_json", "process_update"},
            stop : BOOLEAN, shutdown : BOOLEAN] :
        /\ f.step = "initialize" => ~f.stop /\ ~f.shutdown
        /\ f.step = "start" => ~f.stop}

LibCall(op, raises) == IF raises THEN op \o "_raised" ELSE op

\* a shutdown whose stop and shutdown share one try
shutdown_in_one_try(calls, started, initialized, fault) ==
    LET stopped == IF started
                   THEN Append(calls, LibCall("stop", fault.stop))
                   ELSE calls
    IN  IF initialized /\ ~(started /\ fault.stop)
        THEN Append(stopped, LibCall("shutdown", fault.shutdown))
        ELSE stopped

_shutdown_application(calls, started, initialized, fault) ==
    LET stopped == IF started
                   THEN Append(calls, LibCall("stop", fault.stop))
                   ELSE calls
    IN  IF initialized
        THEN Append(stopped, LibCall("shutdown", fault.shutdown))
        ELSE stopped

\* the application built by build_application: no conversation, an empty
\* user_data for every user (no persistence is configured)
FreshApplication == [st |-> NoConversation, ud |-> EmptyUserData]

NotServed(cds) == Result(EmptyUserData, NoConversation, cds, <<>>, "none", NoId)

\* calls: the library calls made, in order; raised: an exception left
\* _process_update; found: the conversation state and session the update was
\* dispatched on; r: what its handler left
_process_update(update, cds, fault) ==
    LET application == FreshApplication
        served == serve(application.ud, application.st, cds, update)
    IN  CASE fault.step = "initialize" ->
                 [calls |-> _shutdown_application(<<"initialize_raised">>,
                                                  FALSE, FALSE, fault),
                  raised |-> TRUE, dispatched |-> FALSE, found |-> application,
                  r |-> NotServed(cds)]
          [] fault.step = "start" ->
                 [calls |-> _shutdown_application(<<"initialize", "start_raised">>,
                                                  FALSE, TRUE, fault),
                  raised |-> TRUE, dispatched |-> FALSE, found |-> application,
                  r |-> NotServed(cds)]
          [] fault.step = "de_json" ->
                 [calls |-> _shutdown_application(
                                <<"initialize", "start", "de_json_raised">>,
                                TRUE, TRUE, fault),
                  raised |-> TRUE, dispatched |-> FALSE, found |-> application,
                  r |-> NotServed(cds)]
          [] fault.step = "process_update" ->
                 [calls |-> _shutdown_application(
                                <<"initialize", "start", "de_json",
                                  "process_update_raised">>,
                                TRUE, TRUE, fault),
                  raised |-> TRUE, dispatched |-> FALSE, found |-> application,
                  r |-> NotServed(cds)]
          [] OTHER ->
                 [calls |-> _shutdown_application(
                                <<"initialize", "start", "de_json", "process_update">>,
                                TRUE, TRUE, fault),
                  raised |-> FALSE, dispatched |-> TRUE, found |-> application,
                  r |-> served]

Answered(status, message, cds) ==
    [status |-> status, message |-> message, calls |-> <<>>, dispatched |-> FALSE,
     found |-> FreshApplication, r |-> NotServed(cds)]

\* a payload handler that parses the body before it checks the secret
process_payload_parsing_first(body, headers, expected, cds, fault) ==
    IF ~json_loads(TextOf(body)).ok
    THEN Answered(400, "invalid json", cds)
    ELSE IF ~_validate_secret(headers, expected)
    THEN Answered(403, "invalid secret", cds)
    ELSE LET p == _process_update(json_loads(TextOf(body)).value, cds, fault)
         IN  [status |-> IF p.raised THEN 500 ELSE 200,
              message |-> IF p.raised THEN "error" ELSE "ok",
              calls |-> p.calls, dispatched |-> p.dispatched, found |-> p.found,
              r |-> p.r]

_process_payload(body, headers, expected, cds, fault) ==
    IF ~_validate_secret(headers, expected)
    THEN Answered(403, "invalid secret", cds)
    ELSE IF ~json_loads(TextOf(body)).ok
    THEN Answered(400, "invalid json", cds)
    ELSE LET p == _process_update(json_loads(TextOf(body)).value, cds, fault)
         IN  [status |-> IF p.raised THEN 500 ELSE 200,
              message |-> IF p.raised THEN "error" ELSE "ok",
              calls |-> p.calls, dispatched |-> p.dispatched, found |-> p.found,
              r |-> p.r]

\* event: method (httpMethod or method; NoId: neither), body, isBase64Encoded,
\* headers
_handle_lambda_event(req, expected, cds, fault) ==
    LET method == upper(IF req.method = NoId THEN "POST" ELSE req.method)
        decoded == b64decode(req.body)
    IN  IF method = "GET"
        THEN Answered(200, "ok", cds)
        ELSE IF req.body.form = "missing"
        THEN Answered(400, "missing body", cds)
        ELSE IF req.isBase64Encoded /\ ~decoded.ok
        THEN Answered(400, "invalid base64 body", cds)
        ELSE _process_payload(IF req.isBase64Encoded THEN decoded.body ELSE req.body,
                              req.headers, expected, cds, fault)

\* request: method, get_data(as_text=True), headers
_handle_http_request(req, expected, cds, fault) ==
    LET method == upper(IF req.method = NoId THEN "POST" ELSE req.method)
    IN  IF method = "GET"
        THEN Answered(200, "ok", cds)
        ELSE IF req.body.form = "missing"
        THEN Answered(400, "missing body", cds)
        ELSE _process_payload(req.body, req.headers, expected, cds, fault)

\* settings.telegram_secret_token: "" when the variable is not set
SecretTokens == {"", "s3cret"}

Methods == {NoId, "get"}

BodyTexts == DOMAIN UpdateJson \cup {"oops"}

Bodies ==
    {NoBody, Body("broken", "")}
    \cup {Body("plain", text) : text \in BodyTexts}
    \cup {Body("base64", text) : text \in {"{message: /start}", "oops"}}

\* the headers of a request, in the order of the dictionary
HeaderSets ==
    { <<Header("Content-Type", "application/json")>>,
      <<Header("x-telegram-bot-api-secret-token", "s3cret")>>,
      <<Header("X-TELEGRAM-BOT-API-SECRET-TOKEN", "wrong")>>,
      <<Header("Content-Type", "application/json"),
        Header("X-Telegram-Bot-Api-Secret-Token", "s3cret")>>,
      <<Header("X-Telegram-Bot-Api-Secret-Token", "wrong"),
        Header("x-telegram-bot-api-secret-token", "s3cret")>>,
      <<Header("x-telegram-bot-api-secret-token", "s3cret"),
        Header("X-Telegram-Bot-Api-Secret-Token", "wrong")>> }

\* entry: "lambda" for an event dictionary, "http" for a request object (it
\* has the attribute method)
Requests ==
    [entry : {"lambda", "http"}, method : Methods, body : Bodies,
     isBase64Encoded : BOOLEAN, headers : HeaderSets]

NoRequest ==
    [entry |-> NoId, method |-> NoId, body |-> NoBody, isBase64Encoded |-> FALSE,
     headers |-> <<>>]

\* expected: the configured secret; req: the last request; status, message:
\* its answer; calls: the library calls made for it; dispatched: its update was
\* handed to the handlers; found: the conversation state and session it was
\* dispatched on; prev: those the processing of the update before it had left
InitWebhook ==
    /\ state = NoConversation
    /\ user_data = EmptyUserData
    /\ cards = [c \in QIds |-> NoId]
    /\ event = NoEvent
    /\ out = <<>>
    /\ hist = NoHist
    /\ tasks = Untracked
    /\ inflight = <<>>
    /\ \E expected \in SecretTokens :
           tg = [expected |-> expected, req |-> NoRequest, status |-> 0,
                 message |-> NoId, calls |-> <<>>, dispatched |-> FALSE,
                 found |-> FreshApplication, prev |-> FreshApplication]

\* handler(event): the answer a of the entry's handler is returned; state and
\* user_data are what the processing of the last dispatched update reached
Answer(req, a) ==
    /\ state' = IF a.dispatched THEN a.r.st ELSE state
    /\ user_data' = IF a.dispatched THEN a.r.ud ELSE user_data
    /\ cards' = a.r.cards
    /\ out' = a.r.out
    /\ event' = [kind |-> "webhook", branch |-> a.r.branch, q |-> a.r.q,
                 from |-> a.found.st, text |-> NoId]
    /\ tg' = [tg EXCEPT !.req = req, !.status = a.status, !.message = a.message,
                        !.calls = a.calls, !.dispatched = a.dispatched,
                        !.found = a.found,
                        !.prev = [st |-> state, ud |-> user_data]]
    /\ UNCHANGED <<hist, tasks, inflight>>

NoFault == [step |-> "none", stop |-> FALSE, shutdown |-> FALSE]

\* a library call can raise only where one is made
FaultsOf(a) == IF a.calls = <<>> THEN {NoFault} ELSE Faults

LambdaEvent ==
    \E req \in {r \in Requests : r.entry = "lambda"} :
        \E fault \in FaultsOf(_handle_lambda_event(req, tg.expected, cards, NoFault)) :
            Answer(req, _handle_lambda_event(req, tg.expected, cards, fault))

HttpRequest ==
    \E req \in {r \in Requests : r.entry = "http" /\ ~r.isBase64Encoded} :
        \E fault \in FaultsOf(_handle_http_request(req, tg.expected, cards, NoFault)) :
            Answer(req, _handle_http_request(req, tg.expected, cards, fault))

NextWebhook == LambdaEvent \/ HttpRequest

WebhookSpec == InitWebhook /\ [][NextWebhook]_vars

-----------------------------------------------------------------------------
(* Claims about the webhook entry point *)

Requested == tg.req.entry # NoId

IsGet(req) == upper(IF req.method = NoId THEN "POST" ELSE req.method) = "GET"

MissingBody(req) == req.body.form = "missing"

\* the event says the body is base64 and the body cannot be decoded
UndecodableBody(req) ==
    /\ req.entry = "lambda"
    /\ req.isBase64Encoded
    /\ ~MissingBody(req)
    /\ ~b64decode(req.body).ok

\* the body, decoded when the event says it is base64, is not JSON
NotJsonBody(req) ==
    /\ ~MissingBody(req)
    /\ ~UndecodableBody(req)
    /\ LET text == IF req.entry = "lambda" /\ req.isBase64Encoded
                   THEN b64decode(req.body).body.text
                   ELSE TextOf(req.body)
       IN  text \notin DOMAIN UpdateJson

\* no call of the application was made for the request and the conversation
\* is as the request found it
NothingProcessed ==
    /\ tg.calls = <<>>
    /\ ~tg.dispatched
    /\ state = tg.prev.st
    /\ user_data = tg.prev.ud
    /\ out = <<>>

\* C32 as stated: a webhook request with a missing body, an undecodable base64
\* body or a body that is not valid JSON is answered 400 and never reaches
\* update processing.
C32_MalformedAnswered400 ==
    Requested /\ (MissingBody(tg.req) \/ UndecodableBody(tg.req) \/ NotJsonBody(tg.req))
        => tg.status = 400 /\ NothingProcessed

\* C32: such a request never reaches update processing; it is answered 200 if
\* its method is GET, otherwise 400 if the body is missing or undecodable,
\* otherwise (the body is not JSON) 403 if the secret check fails and 400 if
\* it passes.
C32_MalformedNotProcessed ==
    Requested /\ (MissingBody(tg.req) \/ UndecodableBody(tg.req) \/ NotJsonBody(tg.req))
        => /\ NothingProcessed
           /\ tg.status =
                  IF IsGet(tg.req) THEN 200
                  ELSE IF MissingBody(tg.req) \/ UndecodableBody(tg.req) THEN 400
                  ELSE IF _validate_secret(tg.req.headers, tg.expected) THEN 400
                  ELSE 403

\* a body that is not JSON, sent without the configured secret to a
\* conversation that a start command had opened
C32_Witness ==
    /\ tg.req.body = Body("plain", "oops")
    /\ ~IsGet(tg.req)
    /\ tg.expected = "s3cret"
    /\ tg.req.headers = <<Header("Content-Type", "application/json")>>
    /\ tg.status = 403
    /\ state = "WELCOME"

\* C33: the session and the conversation state reached while processing one
\* update are the ones the next update of the chat is dispatched on.
C33_SessionCarriesOver ==
    tg.dispatched => tg.found = tg.prev

\* the request has a header named as the secret header (whatever the case of
\* the letters) whose value is the configured secret
CarriesSecret(req, expected) ==
    \E i \in 1..Len(req.headers) :
        /\ lower(req.headers[i].key) = SecretHeader
        /\ req.headers[i].value = expected

\* C39 as stated: with a secret configured an update is processed only if the
\* request carries the secret header with that value, otherwise the request
\* is answered 403; a GET request never processes an update.
C39_SecretOr403 ==
    Requested =>
        /\ tg.expected # "" /\ tg.calls # <<>> => CarriesSecret(tg.req, tg.expected)
        /\ tg.expected # "" /\ ~CarriesSecret(tg.req, tg.expected)
               => tg.status = 403 /\ NothingProcessed
        /\ IsGet(tg.req) => NothingProcessed

\* C39: with a secret configured an update is processed only if the request
\* carries the secret header with that value; a request that does not is not
\* processed and is answered 200 if its method is GET, otherwise 400 if its
\* body is missing or undecodable, otherwise 403; a GET request never
\* processes an update.
C39_SecretRequired ==
    Requested =>
        /\ tg.expected # "" /\ tg.calls # <<>> => CarriesSecret(tg.req, tg.expected)
        /\ tg.expected # "" /\ ~CarriesSecret(tg.req, tg.expected)
               => /\ NothingProcessed
                  /\ tg.status =
                         IF IsGet(tg.req) THEN 200
                         ELSE IF MissingBody(tg.req) \/ UndecodableBody(tg.req)
                         THEN 400
                         ELSE 403
        /\ IsGet(tg.req) => NothingProcessed

\* a start command sent with the secret under a header name in another case
\* is processed; before it a request had opened the conversation
C39_Witness ==
    /\ tg.expected = "s3cret"
    /\ tg.req.headers = <<Header("Content-Type", "application/json"),
                          Header("X-Telegram-Bot-Api-Secret-Token", "s3cret")>>
    /\ tg.req.body = Body("base64", "{message: /start}")
    /\ tg.dispatched
    /\ tg.status = 200
    /\ event.branch = "start"

LibCalled(op) == \E i \in 1..Len(tg.calls) : tg.calls[i] \in {op, op \o "_raised"}

LibCompleted(op) == \E i \in 1..Len(tg.calls) : tg.calls[i] = op

\* C40: for each webhook update stop is called if and only if start
\* completed and shutdown if and only if initialize completed, stop before
\* shutdown and both after every other call, also when initialize, start or
\* the processing raises; shutdown is called also when stop raised.
C40_StopAndShutdown ==
    /\ LibCalled("stop") <=> LibCompleted("start")
    /\ LibCalled("shutdown") <=> LibCompleted("initialize")
    /\ \A i, j \in 1..Len(tg.calls) :
           /\ tg.calls[i] \in {"stop", "stop_raised"}
                  /\ tg.calls[j] \in {"shutdown", "shutdown_raised"} => i < j
           /\ tg.calls[i] \in {"stop", "stop_raised", "shutdown", "shutdown_raised"}
                  /\ tg.calls[j] \notin {"stop", "stop_raised", "shutdown",
                                         "shutdown_raised"} => j < i
    /\ Cardinality({i \in 1..Len(tg.calls) :
                       tg.calls[i] \in {"stop", "stop_raised"}}) <= 1
    /\ Cardinality({i \in 1..Len(tg.calls) :
                       tg.calls[i] \in {"shutdown", "shutdown_raised"}}) <= 1

\* process_update raised and then stop raised: shutdown is still called
C40_Witness ==
    tg.calls = <<"initialize", "start", "de_json", "process_update_raised",
                 "stop_raised", "shutdown">>

-----------------------------------------------------------------------------
(* Claims about the cards and the recorded answers *)

\* C34: every in-place edit writes the text and keyboard of the question the
\* edited card was sent for (a card is named after that question), so every
\* card in the chat shows the question it was sent for; the card edited when
\* a custom free-text value is consumed is the card of the question the value
\* was recorded for.
C34_EditsOwnCard ==
    /\ \A i \in 1..Len(out) : out[i].op = "edit_card" => out[i].q = out[i].card
    /\ \A c \in QIds : cards[c] \in {NoId, c}
    /\ event.branch = "custom_multi" =>
           \A i \in 1..Len(out) : out[i].op = "edit_card" => out[i].card = event.q

\* C35: the cursor is never moved past a question that has no recorded
\* answer, so when diagnosisComplete is true answers holds an entry for every
\* question of the catalog.
C35_NoQuestionSkipped ==
    /\ \A i \in 1..NumQuestions :
           i <= user_data.question_index =>
               user_data.answers[get_all_question_sequence[i].id] # NoAnswer
    /\ user_data.diagnosis_complete =>
           \A q \in QIds : user_data.answers[q] # NoAnswer

\* the entry recorded for `question` has the shape of the question
ShapeMatches(question, entry) ==
    \/ entry = NoAnswer
    \/ question.multi_select /\ entry.tag = "choice"
    \/ ~question.multi_select /\ entry.tag = "scalar"

\* C36: the shape of every recorded answer matches its question: the entry of
\* a multi-select question is a Choice {selected, custom}, the entry of a
\* single-select or text-only question a Scalar; so toggle_multi_option and
\* append_custom_answer never meet a Scalar entry.
C36_ShapeMatchesQuestion ==
    /\ \A i \in 1..NumQuestions :
           ShapeMatches(get_all_question_sequence[i],
                        user_data.answers[get_all_question_sequence[i].id])
    /\ event.branch # "raised"

\* the multi-select question holds a selected key and a custom value, the
\* questions around it a Scalar each, one of them a custom free text
C36_Witness ==
    /\ user_data.answers["q1"] = Scalar("hello")
    /\ user_data.answers["q2"].tag = "choice"
    /\ user_data.answers["q2"].selected # <<>>
    /\ user_data.answers["q2"].custom # <<>>
    /\ user_data.answers["q3"].tag = "scalar"

\* the keys of the options of `question` that do not ask for free text
PlainKeys(question) ==
    {question.options[i].key :
        i \in {j \in 1..Len(question.options) :
                  ~question.options[j].requires_free_text}}

\* C37: the selected list of every Choice answer has no duplicate keys, and
\* each key is the key of an option of that question that is not flagged
\* requires_free_text.
C37_SelectedKeysValid ==
    \A q \in QIds :
        user_data.answers[q].tag = "choice" =>
            LET selected == user_data.answers[q].selected
            IN  /\ Cardinality(Elems(selected)) = Len(selected)
                /\ Elems(selected) \subseteq PlainKeys(get_question_by_id(q))

\* both plain options selected, in the order opposite to the keyboard's,
\* after a toggle that removed a key
C37_Witness ==
    /\ user_data.answers["q2"].tag = "choice"
    /\ user_data.answers["q2"].selected = <<"y", "x">>
    /\ event.branch = "toggle"
    /\ event.q = "q2"

\* C38: reportReady implies diagnosisComplete and sheetsSaved, sheetsSaved
\* implies diagnosisComplete, the conversation is in REPORT or CHAT only if
\* diagnosisComplete is true, and the persistence, analysis and report
\* collaborators are invoked only for a session whose questionnaire is
\* complete.
C38_FlagsOrdered ==
    /\ user_data.report_ready => user_data.diagnosis_complete /\ user_data.sheets_saved
    /\ user_data.sheets_saved => user_data.diagnosis_complete
    /\ state \in {"REPORT", "CHAT"} => user_data.diagnosis_complete
    /\ Made(PersistOps \cup {"analyze", "analyze_default", "render_report",
                            "render_raised"})
           => user_data.diagnosis_complete

====
